---------------------------- MODULE Spec2Model ----------------------------
(***************************************************************************)
(* A model of the GHOST-CODER bot: the swarm engine (swarmGenerate), the   *)
(* file-block parser (parseFiles), the plan extraction, the ghost-memory   *)
(* store (getGhostState / saveGhostState) and the messageCreate handler    *)
(* with its spawn, tweak, brainstorm, help and dashboard commands.         *)
(*                                                                         *)
(* Texts are sequences of one-character strings, so that the regular       *)
(* expressions of the source are evaluated character by character.         *)
(***************************************************************************)
EXTENDS Integers, Sequences, FiniteSets, TLC

(***************************************************************************)
(* TEXT PRIMITIVES (JavaScript String / RegExp behaviour)                  *)
(***************************************************************************)

\* JavaScript's \s on the characters the model uses.
IsWS(c) == c \in {" ", "\n", "\t"}

Letters ==
    {"a","b","c","d","e","f","g","h","i","j","k","l","m","n","o","p","q","r",
     "s","t","u","v","w","x","y","z",
     "A","B","C","D","E","F","G","H","I","J","K","L","M","N","O","P","Q","R",
     "S","T","U","V","W","X","Y","Z"}

Digits == {"0","1","2","3","4","5","6","7","8","9"}

SetMin(S) == CHOOSE x \in S : \A y \in S : x <= y

SetMax(S) == CHOOSE x \in S : \A y \in S : x >= y

\* s.startsWith(lit, i - 1): lit occurs in s at (1-based) position i.
StartsWithAt(s, i, lit) ==
    /\ i >= 1
    /\ i + Len(lit) - 1 <= Len(s)
    /\ \A k \in 1..Len(lit) : s[i + k - 1] = lit[k]

\* s.indexOf(lit, from - 1), 1-based; 0 stands for JavaScript's -1.
IndexOfFrom(s, lit, from) ==
    LET hits == {i \in from..Len(s) : StartsWithAt(s, i, lit)}
    IN  IF hits = {} THEN 0 ELSE SetMin(hits)

IndexOf(s, lit) == IndexOfFrom(s, lit, 1)

\* s.lastIndexOf(lit), 1-based; 0 stands for JavaScript's -1.
LastIndexOf(s, lit) ==
    LET hits == {i \in 1..Len(s) : StartsWithAt(s, i, lit)}
    IN  IF hits = {} THEN 0 ELSE SetMax(hits)

\* The characters of s at positions a..b (empty when a > b).
Slice(s, a, b) == IF a > b THEN <<>> ELSE SubSeq(s, a, b)

\* s.substring(a0, b0) on 0-based offsets: both clamped to 0..length, and
\* swapped when the first exceeds the second.
ClampOffset(s, x) == IF x < 0 THEN 0 ELSE IF x > Len(s) THEN Len(s) ELSE x

Substring(s, a0, b0) ==
    LET a  == ClampOffset(s, a0)
        b  == ClampOffset(s, b0)
        lo == IF a <= b THEN a ELSE b
        hi == IF a <= b THEN b ELSE a
    IN  Slice(s, lo + 1, hi)

\* s.trim()
Trim(s) ==
    LET keep == {i \in 1..Len(s) : ~IsWS(s[i])}
    IN  IF keep = {} THEN <<>> ELSE SubSeq(s, SetMin(keep), SetMax(keep))

\* s.replace(/[*#]/g, '')
StripMarkup(s) == SelectSeq(s, LAMBDA c : c \notin {"*", "#"})

RECURSIVE Flatten(_)
\* The concatenation of a sequence of texts.
Flatten(parts) ==
    IF parts = <<>> THEN <<>> ELSE Head(parts) \o Flatten(Tail(parts))


(***************************************************************************)
(* THE MARKERS OF THE TEXT PROTOCOL                                        *)
(***************************************************************************)

FILE_START_LIT == <<"[","F","I","L","E","_","S","T","A","R","T",":">>

FILE_END_LIT == <<"[","F","I","L","E","_","E","N","D","]">>

OVERVIEW_START_LIT == <<"[","O","V","E","R","V","I","E","W","_","S","T","A","R","T","]">>

OVERVIEW_END_LIT == <<"[","O","V","E","R","V","I","E","W","_","E","N","D","]">>

FILE_LIST_LIT == <<"[","F","I","L","E","_","L","I","S","T",":">>

\* The grave accent cannot be written in a string of this language: "~" stands
\* for it in every text of the model and has no other use.
BACKTICK == "~"

FENCE_LIT == <<BACKTICK, BACKTICK, BACKTICK>>

FENCE_JSON_LIT == FENCE_LIT \o <<"j","s","o","n">>

\* "Destroyer Mission Active." placeholder of the overview (its emoji left out).
PLACEHOLDER_OVERVIEW == <<"D","e","s","t","r","o","y","e","r"," ","M","i","s","s","i","o","n"," ","A","c","t","i","v","e",".">>

\* A JavaScript string value and a JavaScript number value (JSON.parse can
\* return either as an element of the file list).
JStr(t) == [kind |-> "string", text |-> t]

JNum(t) == [kind |-> "number", text |-> t]

JOther(k, t) == [kind |-> k, text |-> t]

\* ["index.js", "package.json", "README.md"]
FALLBACK_FILES ==
    << JStr(<<"i","n","d","e","x",".","j","s">>),
       JStr(<<"p","a","c","k","a","g","e",".","j","s","o","n">>),
       JStr(<<"R","E","A","D","M","E",".","m","d">>) >>


(***************************************************************************)
(* OUTPUT PARSER: parseFiles                                               *)
(***************************************************************************)

\* match[2], the lazy body group ([\s\S]*?) with its lookahead
\* (?=\[FILE_START:|\[FILE_END\]|$): the position just after the body that
\* starts at position from (the first position where a start marker or an
\* end marker begins, or the end of the text).
BodyEnd(s, from) ==
    LET stops == {e \in from..Len(s) :
                     \/ StartsWithAt(s, e, FILE_START_LIT)
                     \/ StartsWithAt(s, e, FILE_END_LIT)}
    IN  IF stops = {} THEN Len(s) + 1 ELSE SetMin(stops)

\* The position of the "]" that closes the name group (.+?) of a start marker
\* at position i, or 0 when the regular expression does not match at i: the
\* name has at least one character and "." matches no line break.
NameClose(s, i) ==
    LET n0 == i + Len(FILE_START_LIT)
        r  == IndexOfFrom(s, <<"]">>, n0 + 1)
    IN  IF /\ StartsWithAt(s, i, FILE_START_LIT)
           /\ n0 <= Len(s)
           /\ r # 0
           /\ \A k \in n0..(r - 1) : s[k] # "\n"
        THEN r ELSE 0

\* regex.exec with lastIndex = from - 1: the first position at or after from
\* where the regular expression matches, or 0 (null).
NextMatch(s, from) ==
    LET hits == {i \in from..Len(s) : NameClose(s, i) # 0}
    IN  IF hits = {} THEN 0 ELSE SetMin(hits)

\* fileContent.replace(/^```[a-z]*\n/i, ''): a fence opener line at the very
\* start of the content is removed.
LetterRun(s, from) ==
    LET stops == {k \in from..Len(s) : s[k] \notin Letters}
    IN  IF stops = {} THEN Len(s) + 1 ELSE SetMin(stops)

StripFenceOpen(c) ==
    LET k == LetterRun(c, Len(FENCE_LIT) + 1)
    IN  IF StartsWithAt(c, 1, FENCE_LIT) /\ k <= Len(c) /\ c[k] = "\n"
        THEN Slice(c, k + 1, Len(c))
        ELSE c

\* fileContent.replace(/\n```$/m, ''): not global, so the FIRST line break
\* followed by a fence that ends a line (the m flag) is removed.
FenceCloseAt(c, p) ==
    /\ StartsWithAt(c, p, <<"\n">> \o FENCE_LIT)
    /\ \/ p + Len(FENCE_LIT) = Len(c)
       \/ c[p + Len(FENCE_LIT) + 1] = "\n"

StripFenceClose(c) ==
    LET hits == {p \in 1..Len(c) : FenceCloseAt(c, p)}
        p0   == SetMin(hits)
    IN  IF hits = {} THEN c
        ELSE Slice(c, 1, p0 - 1) \o Slice(c, p0 + Len(FENCE_LIT) + 1, Len(c))

StripFences(c) == StripFenceClose(StripFenceOpen(c))

\* match[1].trim().replace(/[*#]/g, '')
CleanName(raw) == StripMarkup(Trim(raw))

\* match[2].trim(), then the two fence replacements
CleanContent(raw) == StripFences(Trim(raw))

\* A filter that lets an empty content through.
KeepBlockAnyContent(name, content) == name # <<>>

\* if (fileName && fileContent) files.push({ name, content })
KeepBlock(name, content) == name # <<>> /\ content # <<>>

RECURSIVE ParseFrom(_, _)
\* The while loop over regex.exec, from lastIndex = from - 1.
ParseFrom(s, from) ==
    LET i == NextMatch(s, from)
    IN  IF i = 0 THEN <<>>
        ELSE LET r       == NameClose(s, i)
                 e       == BodyEnd(s, r + 1)
                 name    == CleanName(Slice(s, i + Len(FILE_START_LIT), r - 1))
                 content == CleanContent(Slice(s, r + 1, e - 1))
                 rest    == ParseFrom(s, e)
             IN  IF KeepBlock(name, content)
                 THEN <<[name |-> JStr(name), content |-> content]>> \o rest
                 ELSE rest

\* A parser that applies the caller's fallback itself: a text without any
\* block comes back as one file.
parseFilesOrWholeText(content) ==
    IF ParseFrom(content, 1) = <<>> /\ content # <<>>
    THEN <<[name |-> JStr(<<"f">>), content |-> content]>>
    ELSE ParseFrom(content, 1)

parseFiles(content) == ParseFrom(content, 1)

\* The parseFiles of the second program of index.js (lines 412-420):
\* /\[FILE_START:(.+?)\]([\s\S]*?)\[FILE_END\]/g.  The position of the end
\* marker that closes the block whose start marker is at i, or 0 when the
\* regular expression does not match at i.
StrictEnd(s, i) ==
    LET r == NameClose(s, i)
    IN  IF r = 0 THEN 0 ELSE IndexOfFrom(s, FILE_END_LIT, r + 1)

StrictNextMatch(s, from) ==
    LET hits == {i \in from..Len(s) : StrictEnd(s, i) # 0}
    IN  IF hits = {} THEN 0 ELSE SetMin(hits)

RECURSIVE StrictParseFrom(_, _)
\* files.push({ name: match[1].trim(), content: match[2].trim() })
StrictParseFrom(s, from) ==
    LET i == StrictNextMatch(s, from)
    IN  IF i = 0 THEN <<>>
        ELSE LET r == NameClose(s, i)
                 e == StrictEnd(s, i)
             IN  <<[ name    |-> JStr(Trim(Slice(s, i + Len(FILE_START_LIT), r - 1))),
                     content |-> Trim(Slice(s, r + 1, e - 1)) ]>>
                    \o StrictParseFrom(s, e + Len(FILE_END_LIT))

StrictParseFiles(content) == StrictParseFrom(content, 1)


(***************************************************************************)
(* JSON.parse AND JSON.stringify                                           *)
(***************************************************************************)

IsJsonWS(c) == c \in {" ", "\n", "\t"}

\* The first position at or after i that holds no JSON white space.
SkipWS(s, i) ==
    LET stops == {k \in i..Len(s) : ~IsJsonWS(s[k])}
    IN  IF stops = {} THEN Len(s) + 1 ELSE SetMin(stops)

JsonFail == [ok |-> FALSE, value |-> JOther("none", <<>>), items |-> <<>>, next |-> 0]

JsonOk(v, items, next) == [ok |-> TRUE, value |-> v, items |-> items, next |-> next]

RECURSIVE ParseStringBody(_, _, _)
\* The characters of a JSON string whose opening quote precedes position i.
\* A raw line break or an unknown escape is a SyntaxError.
ParseStringBody(s, i, acc) ==
    IF i > Len(s) THEN JsonFail
    ELSE IF s[i] = "\"" THEN JsonOk(JStr(acc), <<>>, i + 1)
    ELSE IF s[i] \in {"\n", "\t"} THEN JsonFail
    ELSE IF s[i] = "\\" THEN
        IF i + 1 > Len(s) THEN JsonFail
        ELSE IF s[i + 1] \in {"\"", "\\", "/"}
             THEN ParseStringBody(s, i + 2, Append(acc, s[i + 1]))
        ELSE IF s[i + 1] = "n" THEN ParseStringBody(s, i + 2, Append(acc, "\n"))
        ELSE IF s[i + 1] = "t" THEN ParseStringBody(s, i + 2, Append(acc, "\t"))
        ELSE JsonFail
    ELSE ParseStringBody(s, i + 1, Append(acc, s[i]))

\* The end of the run of digits that starts at position i.
DigitRun(s, i) ==
    LET stops == {k \in i..Len(s) : s[k] \notin Digits}
    IN  IF stops = {} THEN Len(s) + 1 ELSE SetMin(stops)

JSON_NULL == <<"n","u","l","l">>

JSON_TRUE == <<"t","r","u","e">>

JSON_FALSE == <<"f","a","l","s","e">>

RECURSIVE ParseValue(_, _)
RECURSIVE ParseElements(_, _, _)
\* One JSON value starting at position i (white space skipped by the caller).
\* Objects and fractional or signed numbers are outside the model's alphabet.
ParseValue(s, i) ==
    IF i > Len(s) THEN JsonFail
    ELSE IF s[i] = "\"" THEN ParseStringBody(s, i + 1, <<>>)
    ELSE IF s[i] \in Digits THEN
        LET e == DigitRun(s, i)
        IN  IF s[i] = "0" /\ e > i + 1 THEN JsonFail
            ELSE JsonOk(JNum(Slice(s, i, e - 1)), <<>>, e)
    ELSE IF StartsWithAt(s, i, JSON_NULL) THEN JsonOk(JOther("null", JSON_NULL), <<>>, i + 4)
    ELSE IF StartsWithAt(s, i, JSON_TRUE) THEN JsonOk(JOther("boolean", JSON_TRUE), <<>>, i + 4)
    ELSE IF StartsWithAt(s, i, JSON_FALSE) THEN JsonOk(JOther("boolean", JSON_FALSE), <<>>, i + 5)
    ELSE IF s[i] = "[" THEN
        LET j == SkipWS(s, i + 1)
        IN  IF j <= Len(s) /\ s[j] = "]"
            THEN JsonOk(JOther("array", Slice(s, i, j)), <<>>, j + 1)
            ELSE LET r == ParseElements(s, j, <<>>)
                 IN  IF r.ok
                     THEN JsonOk(JOther("array", Slice(s, i, r.next - 1)), r.items, r.next)
                     ELSE JsonFail
    ELSE JsonFail

\* The elements of an array after its "[": value ("," value)* "]".
ParseElements(s, i, acc) ==
    LET v == ParseValue(s, i)
        j == SkipWS(s, v.next)
    IN  IF ~v.ok \/ j > Len(s) THEN JsonFail
        ELSE IF s[j] = "]" THEN JsonOk(JOther("array", <<>>), Append(acc, v.value), j + 1)
        ELSE IF s[j] = "," THEN ParseElements(s, SkipWS(s, j + 1), Append(acc, v.value))
        ELSE JsonFail

\* JSON.parse(s): ok = FALSE is a thrown SyntaxError; on success value is the
\* parsed value and, when it is an array, items are its elements.
JSONparse(s) ==
    LET i == SkipWS(s, 1)
        v == ParseValue(s, i)
    IN  IF v.ok /\ SkipWS(s, v.next) = Len(s) + 1 THEN v ELSE JsonFail

RECURSIVE Escape(_)
\* The escapes JSON.stringify applies inside a string.
Escape(s) ==
    IF s = <<>> THEN <<>>
    ELSE LET c == Head(s)
             e == IF c = "\"" THEN <<"\\", "\"">>
                  ELSE IF c = "\\" THEN <<"\\", "\\">>
                  ELSE IF c = "\n" THEN <<"\\", "n">>
                  ELSE IF c = "\t" THEN <<"\\", "t">>
                  ELSE <<c>>
         IN  e \o Escape(Tail(s))

Quote(s) == <<"\"">> \o Escape(s) \o <<"\"">>

\* JSON.stringify of one JavaScript value of the model.
StringifyValue(v) == IF v.kind = "string" THEN Quote(v.text) ELSE v.text

NAME_KEY == <<"{", "\"", "n", "a", "m", "e", "\"", ":">>

CONTENT_KEY == <<",", "\"", "c", "o", "n", "t", "e", "n", "t", "\"", ":">>

StringifyArtifact(f) ==
    NAME_KEY \o StringifyValue(f.name) \o CONTENT_KEY \o Quote(f.content) \o <<"}">>

RECURSIVE StringifyItems(_)
StringifyItems(files) ==
    IF files = <<>> THEN <<>>
    ELSE StringifyArtifact(Head(files))
         \o (IF Tail(files) = <<>> THEN <<>> ELSE <<",">>)
         \o StringifyItems(Tail(files))

\* JSON.stringify(files)
JSONstringify(files) == <<"[">> \o StringifyItems(files) \o <<"]">>


(***************************************************************************)
(* PLAN EXTRACTION (inside swarmGenerate)                                  *)
(***************************************************************************)

\* The first position at or after i that holds no white space (\s*).
SkipSpace(s, i) ==
    LET stops == {k \in i..Len(s) : ~IsWS(s[k])}
    IN  IF stops = {} THEN Len(s) + 1 ELSE SetMin(stops)

\* planContent.match(/\[OVERVIEW_START\]([\s\S]*?)\[OVERVIEW_END\]/)
OverviewMatch(planContent) ==
    LET i == IndexOf(planContent, OVERVIEW_START_LIT)
        a == i + Len(OVERVIEW_START_LIT)
        j == IF i = 0 THEN 0 ELSE IndexOfFrom(planContent, OVERVIEW_END_LIT, a)
    IN  IF i # 0 /\ j # 0
        THEN [found |-> TRUE, group |-> Slice(planContent, a, j - 1)]
        ELSE [found |-> FALSE, group |-> <<>>]

\* overviewMatch ? overviewMatch[1].trim() : "Destroyer Mission Active."
OverviewText(planContent) ==
    LET m == OverviewMatch(planContent)
    IN  IF m.found THEN Trim(m.group) ELSE PLACEHOLDER_OVERVIEW

\* planContent.match(/\[FILE_LIST:\s*([\s\S]*?)\]/): the group is lazy and is
\* followed by "]", so it ends just before the first "]" after the marker.
FileListMatch(planContent) ==
    LET i == IndexOf(planContent, FILE_LIST_LIT)
        w == SkipSpace(planContent, i + Len(FILE_LIST_LIT))
        r == IF i = 0 THEN 0 ELSE IndexOfFrom(planContent, <<"]">>, w)
    IN  IF i # 0 /\ r # 0
        THEN [found |-> TRUE, group |-> Slice(planContent, w, r - 1)]
        ELSE [found |-> FALSE, group |-> <<>>]

RECURSIVE StripJsonFences(_)
\* jsonStr.replace(/```json|```/g, '')
StripJsonFences(s) ==
    IF s = <<>> THEN <<>>
    ELSE IF StartsWithAt(s, 1, FENCE_JSON_LIT)
         THEN StripJsonFences(Slice(s, Len(FENCE_JSON_LIT) + 1, Len(s)))
    ELSE IF StartsWithAt(s, 1, FENCE_LIT)
         THEN StripJsonFences(Slice(s, Len(FENCE_LIT) + 1, Len(s)))
    ELSE <<Head(s)>> \o StripJsonFences(Tail(s))

\* The value of filesToBuild when the try block is left: [] unless the match,
\* both brackets and JSON.parse succeed.  raised is never set here: the catch
\* swallows the SyntaxError.
TryFileList(planContent) ==
    LET m        == FileListMatch(planContent)
        jsonStr  == StripJsonFences(Trim(m.group))
        startIdx == IndexOf(jsonStr, <<"[">>) - 1
        endIdx   == LastIndexOf(jsonStr, <<"]">>) - 1
        parsed   == JSONparse(Substring(jsonStr, startIdx, endIdx + 1))
    IN  IF m.found /\ startIdx # -1 /\ endIdx # -1 /\ parsed.ok
        THEN parsed
        ELSE JsonOk(JOther("array", <<>>), <<>>, 0)

\* !filesToBuild: null, false, 0 and "" are falsy.
Falsy(v) ==
    \/ v.kind = "null"
    \/ v.kind = "boolean" /\ v.text = JSON_FALSE
    \/ v.kind = "number" /\ v.text = <<"0">>
    \/ v.kind = "string" /\ v.text = <<>>

\* filesToBuild.length === 0 (arrays and strings have a length).
ZeroLength(parsed) ==
    \/ parsed.value.kind = "array" /\ parsed.items = <<>>
    \/ parsed.value.kind = "string" /\ parsed.value.text = <<>>

\* What "for (const fileName of filesToBuild)" iterates over: the elements of
\* an array, the characters of a string.
Iterated(parsed) ==
    IF parsed.value.kind = "string"
    THEN [k \in 1..Len(parsed.value.text) |-> JStr(<<parsed.value.text[k]>>)]
    ELSE parsed.items

\* A number or true is not iterable: the for loop throws a TypeError.
Iterable(parsed) == parsed.value.kind \in {"array", "string"}

\* The file-list extraction without the guard of lines 157-159.
PlanFilesNoGuard(planContent) ==
    LET parsed == TryFileList(planContent)
    IN  IF Iterable(parsed)
        THEN [raised |-> FALSE, files |-> Iterated(parsed)]
        ELSE [raised |-> TRUE, files |-> <<>>]

\* The file-list extraction taking the parsed value as it is: no fallback
\* names, and a value that cannot be iterated counts as no file.
PlanFilesUnchecked(planContent) ==
    LET parsed == TryFileList(planContent)
    IN  [raised |-> FALSE,
         files  |-> IF Iterable(parsed) THEN Iterated(parsed) ELSE <<>>]

\* Lines 139-159 and the head of the loop at 165: the list the build phase
\* iterates over, or raised when the loop cannot start.
PlanFiles(planContent) ==
    LET parsed == TryFileList(planContent)
    IN  IF Falsy(parsed.value) \/ ZeroLength(parsed)
        THEN [raised |-> FALSE, files |-> FALLBACK_FILES]
        ELSE IF Iterable(parsed)
             THEN [raised |-> FALSE, files |-> Iterated(parsed)]
             ELSE [raised |-> TRUE, files |-> <<>>]

(***************************************************************************)
(* THE PERSONA SELECTION OF THE BUILD LOOP                                 *)
(***************************************************************************)

\* Whether s ends with lit.
EndsWith(s, lit) ==
    Len(s) >= Len(lit) /\ StartsWithAt(s, Len(s) - Len(lit) + 1, lit)

UpperCase == <<"A","B","C","D","E","F","G","H","I","J","K","L","M","N","O","P","Q","R","S","T","U","V","W","X","Y","Z">>

LowerCase == <<"a","b","c","d","e","f","g","h","i","j","k","l","m","n","o","p","q","r","s","t","u","v","w","x","y","z">>

\* The letter c without its case (the i flag of a regular expression).
Lower(c) ==
    IF \E k \in 1..26 : UpperCase[k] = c
    THEN LowerCase[CHOOSE k \in 1..26 : UpperCase[k] = c]
    ELSE c

LowerText(s) == [k \in 1..Len(s) |-> Lower(s[k])]

\* /\.(html|css|jsx|tsx)$/
FRONTEND_SUFFIXES ==
    { <<".","h","t","m","l">>, <<".","c","s","s">>, <<".","j","s","x">>,
      <<".","t","s","x">> }

\* /\.(sql|prisma|db)$/
DATABASE_SUFFIXES ==
    { <<".","s","q","l">>, <<".","p","r","i","s","m","a">>, <<".","d","b">> }

\* /(security|auth|jwt|encrypt)/i
SECURITY_WORDS ==
    { <<"s","e","c","u","r","i","t","y">>, <<"a","u","t","h">>, <<"j","w","t">>,
      <<"e","n","c","r","y","p","t">> }

IsFrontend(fileName) == \E x \in FRONTEND_SUFFIXES : EndsWith(fileName, x)

IsDatabase(fileName) == \E x \in DATABASE_SUFFIXES : EndsWith(fileName, x)

IsSecurity(fileName) == \E x \in SECURITY_WORDS : IndexOf(LowerText(fileName), x) # 0

\* let persona = BACKEND; then three if statements, each assigning persona
\* when its pattern matches.
Persona(fileName) ==
    LET p0 == "BACKEND"
        p1 == IF IsFrontend(fileName) THEN "FRONTEND" ELSE p0
        p2 == IF IsDatabase(fileName) THEN "DATABASE" ELSE p1
        p3 == IF IsSecurity(fileName) THEN "SECURITY" ELSE p2
    IN  p3

\* A persona variable declared before the loop: an iteration whose file
\* name matches no pattern keeps what the iteration before it selected.
SelectPersonaHoisted(previous, fileName) ==
    IF IsFrontend(fileName) \/ IsDatabase(fileName) \/ IsSecurity(fileName)
       \/ previous = "none"
    THEN Persona(fileName)
    ELSE previous

\* The selection of one iteration: let persona is declared in the body of
\* the loop and the patterns are literals without the g flag, so what the
\* iteration before selected (previous) is out of scope.
SelectPersona(previous, fileName) == Persona(fileName)

\* The earlier swarmGenerate (index.js):
\* planContent.match(/\[FILE_LIST:\s*(\[.*?\])\]/s), the group being the
\* shortest text from "[" to a "]" that another "]" follows.
LegacyGroupAt(planContent, i) ==
    LET w    == SkipSpace(planContent, i + Len(FILE_LIST_LIT))
        ends == {r \in (w + 1)..Len(planContent) :
                    StartsWithAt(planContent, r, <<"]", "]">>)}
    IN  IF /\ StartsWithAt(planContent, i, FILE_LIST_LIT)
           /\ w <= Len(planContent)
           /\ planContent[w] = "["
           /\ ends # {}
        THEN [found |-> TRUE, group |-> Slice(planContent, w, SetMin(ends))]
        ELSE [found |-> FALSE, group |-> <<>>]

LegacyFileListMatch(planContent) ==
    LET hits == {i \in 1..Len(planContent) : LegacyGroupAt(planContent, i).found}
    IN  IF hits = {} THEN [found |-> FALSE, group |-> <<>>]
        ELSE LegacyGroupAt(planContent, SetMin(hits))

\* fileListMatch ? JSON.parse(fileListMatch[1]) : [fallback]: the SyntaxError
\* of JSON.parse is not caught in swarmGenerate.
LegacyPlanFiles(planContent) ==
    LET m      == LegacyFileListMatch(planContent)
        parsed == JSONparse(m.group)
    IN  IF ~m.found THEN [raised |-> FALSE, files |-> FALLBACK_FILES]
        ELSE IF parsed.ok THEN [raised |-> FALSE, files |-> parsed.items]
        ELSE [raised |-> TRUE, files |-> <<>>]


(***************************************************************************)
(* THE STATE OF THE BOT                                                    *)
(***************************************************************************)

\* How many messageCreate invocations the model follows (each handler task
\* runs one command).
NumTasks == 2

Tasks == 1..NumTasks

\* The requesters (message.author.id).
Users == {"u1", "u2"}

\* The two swarm engines of the repository: src/unnamed/part_000 (personas,
\* overview, last_plan, brainstorm) and the earlier one of src/index.js.
Variants == {"part_000", "index.js"}

VARIABLES
    variant,    \* which of the two programs is running
    db,         \* the user_states table: user_id -> no row, or one row
    tasks,      \* the invocations of the messageCreate handler
    completed,  \* the files of every swarmGenerate call that returned
    call,       \* a function of the source called on its own: its name, its argument
    result      \* what that call returned, once it has

vars == <<variant, db, tasks, completed, call, result>>

\* null / undefined, or a present value.
None == <<>>

\* No function is called on its own: the bot runs.
NoCall == [fn |-> "none", arg |-> <<>>, parts |-> <<>>]

Some(x) == <<x>>

IsSome(o) == o # <<>>

Get(o) == o[1]

\* A string that is present and not empty (JavaScript truthiness).
Truthy(o) == IsSome(o) /\ Get(o) # <<>>

\* One row of user_states (its columns), as getGhostState returns it.
Row(lastResponse, lastPrompt, lastPlan) ==
    [lastResponse |-> lastResponse, lastPrompt |-> lastPrompt, lastPlan |-> lastPlan]

\* A select without its WHERE clause: rows[0] is the first row of the table,
\* whoever it belongs to.
getGhostStateFirstRow(userId) ==
    IF \E u \in Users : IsSome(db[u])
    THEN db[CHOOSE u \in Users : IsSome(db[u])]
    ELSE None

\* getGhostState(userId): null when there is no row.
getGhostState(userId) == db[userId]

\* An upsert that keeps a stored column where the state object holds none
\* (COALESCE(EXCLUDED.col, col)).
SavedRowMerged(old, state) ==
    LET kept(col) == IF IsSome(state[col]) \/ ~IsSome(old) THEN state[col]
                     ELSE Get(old)[col]
    IN  Row(kept("lastResponse"), kept("lastPrompt"), kept("lastPlan"))

\* The row after saveGhostState(userId, state): an upsert by user_id that sets
\* every column of the statement from state; the statement of index.js names
\* last_response and last_prompt only.
SavedRow(old, state) ==
    IF variant = "part_000"
    THEN Row(state.lastResponse, state.lastPrompt, state.lastPlan)
    ELSE Row(state.lastResponse, state.lastPrompt,
             IF IsSome(old) THEN Get(old).lastPlan ELSE None)

\* A store that deletes the row first and inserts it again only for a state
\* that holds a response.
saveGhostStateDeleteFirst(userId, state) ==
    [db EXCEPT ![userId] = IF IsSome(state.lastResponse)
                           THEN Some(SavedRow(db[userId], state)) ELSE None]

saveGhostState(userId, state) ==
    [db EXCEPT ![userId] = Some(SavedRow(db[userId], state))]

NoRequest == [kind |-> "none", plan |-> None, text |-> <<>>, previous |-> None]

IdleTask ==
    [ pc           |-> "idle",
      user         |-> "none",
      cmd          |-> "none",
      arg          |-> <<>>,
      before       |-> None,       \* the requester's row when the message arrived
      overlap      |-> FALSE,      \* ran while another command of the requester did
      state        |-> None,       \* the snapshot read by getGhostState
      request      |-> NoRequest,  \* the prompt handed to swarmGenerate
      planAnswer   |-> None,       \* what the architect call returned, if it did
      planContent  |-> <<>>,
      overview     |-> <<>>,
      filesToBuild |-> <<>>,
      built        |-> 0,          \* iterations of the build loop completed
      finalFiles   |-> <<>>,
      persona      |-> "none",     \* the role of the current build call
      contrib      |-> <<>>,       \* artifacts added by each iteration of the loop
      responses    |-> <<>>,       \* the raw answer of each build call
      reply        |-> <<>>,       \* the consultant's answer (brainstorm)
      percents     |-> <<>>,       \* percentages written to the status message
      genCalls     |-> 0,          \* mistral.chat.complete calls issued
      wrote        |-> FALSE,      \* saveGhostState has succeeded for this command
      reports      |-> 0,          \* error reports sent to the requester
      error        |-> "none",     \* what threw: generation, platform, store, parse
      outcome      |-> "none" ]

\* An exception that is swallowed where it is raised: the handler stays at
\* the call that failed and waits for it again.
ThrownRetried(tk, why) == [tk EXCEPT !.error = why]

\* The locals of swarmGenerate go out of scope when it throws.
Thrown(tk, why) ==
    [tk EXCEPT !.pc = "errorEdit", !.error = why, !.planContent = <<>>,
               !.overview = <<>>, !.filesToBuild = <<>>, !.finalFiles = <<>>,
               !.contrib = <<>>, !.responses = <<>>]

\* An unhandled rejection: the await is outside every try block.
Unhandled(tk, why) ==
    [tk EXCEPT !.pc = "done", !.error = why, !.outcome = "crashed",
               !.planContent = <<>>, !.overview = <<>>, !.filesToBuild = <<>>,
               !.finalFiles = <<>>, !.contrib = <<>>, !.responses = <<>>]

Finished(tk, how) == [tk EXCEPT !.pc = "done", !.outcome = how]

Set(t, tk) == tasks' = [tasks EXCEPT ![t] = tk]

Commands == {"spawn", "tweak", "brainstorm", "help", "ghost"}

\* args.join(' '): empty, or the text of this invocation.
ArgsOf(t) == {<<>>, <<"r", IF t = 1 THEN "1" ELSE IF t = 2 THEN "2" ELSE "3">>}

TypeOK ==
    /\ variant \in Variants
    /\ \A u \in Users : db[u] = None \/ Len(db[u]) = 1
    /\ \A t \in Tasks : tasks[t].pc \in
          {"idle", "usageReply", "helpReply", "preconditionReply", "statusReply",
           "getContext", "getState", "planEdit", "planWait", "buildEdit",
           "buildWait", "auditEdit", "save", "deliverEdit", "deliverReply",
           "nofilesEdit", "errorEdit", "bsWait", "bsSave", "bsReply", "done"}


(***************************************************************************)
(* THE GENERATION SERVICE (mistral.chat.complete): what it may answer      *)
(***************************************************************************)

\* [OVERVIEW_START]Todo app[OVERVIEW_END][FILE_LIST: ["a.js","b.css"]]
PLAN_E2E == <<"[","O","V","E","R","V","I","E","W","_","S","T","A","R","T","]","T","o","d","o"," ","a","p","p","[","O","V","E","R","V","I","E","W","_","E","N","D","]","[","F","I","L","E","_","L","I","S","T",":"," ","[","\"","a",".","j","s","\"",",","\"","b",".","c","s","s","\"","]","]">>

\* A plan with no FILE_LIST section.
PLAN_NO_LIST == <<"J","u","s","t"," ","b","u","i","l","d"," ","i","t",".">>

\* [FILE_LIST: ["a.js",]]: a syntactically broken array.
PLAN_BROKEN == <<"[","F","I","L","E","_","L","I","S","T",":"," ","[","\"","a",".","j","s","\"",",","]","]">>

\* [FILE_LIST: []]
PLAN_EMPTY_LIST == <<"[","F","I","L","E","_","L","I","S","T",":"," ","[","]","]">>

\* [FILE_LIST: ["*a.js#"]]: a file name with markup characters.
PLAN_STARRED == <<"[","F","I","L","E","_","L","I","S","T",":"," ","[","\"","*","a",".","j","s","#","\"","]","]">>

\* [FILE_LIST: {"a":1}]: a payload that is not an array.
PLAN_NOT_ARRAY == <<"[","F","I","L","E","_","L","I","S","T",":"," ","{","\"","a","\"",":","1","}","]">>

\* An overview section with white space only between its markers.
PLAN_EMPTY_OVERVIEW == <<"[","O","V","E","R","V","I","E","W","_","S","T","A","R","T","]"," ","\n","[","O","V","E","R","V","I","E","W","_","E","N","D","]","[","F","I","L","E","_","L","I","S","T",":"," ","[","\"","a",".","j","s","\"","]","]">>

\* The plan a handler task gets in the specification of the whole bot.
SystemPlans == {PLAN_E2E}

\* The plans of the specification of one pipeline run.
RichPlans ==
    {PLAN_E2E, PLAN_NO_LIST, PLAN_BROKEN, PLAN_EMPTY_LIST, PLAN_STARRED,
     PLAN_NOT_ARRAY, PLAN_EMPTY_OVERVIEW}

\* The pieces an architect's answer is assembled from: the marker and a space,
FRAG_MARKER == <<"[","F","I","L","E","_","L","I","S","T",":"," ">>

\* A JSON array of two names
FRAG_ARRAY == <<"[","\"","a",".","j","s","\"",",","\"","b",".","c","s","s","\"","]">>

\* A JSON array inside a code fence
FRAG_FENCED == <<BACKTICK,BACKTICK,BACKTICK,"j","s","o","n","\n","[","\"","a",".","j","s","\"","]","\n",BACKTICK,BACKTICK,BACKTICK>>

\* A closing bracket
FRAG_CLOSE == <<"]">>

\* An array that never closes
FRAG_BROKEN == <<"[","\"","a",".","j","s","\"",",">>

\* The empty array
FRAG_EMPTY == <<"[","]">>

\* Prose.
FRAG_PROSE == <<" ","x"," ">>

PlanFragments ==
    {FRAG_MARKER, FRAG_ARRAY, FRAG_FENCED, FRAG_CLOSE, FRAG_BROKEN, FRAG_EMPTY,
     FRAG_PROSE}

MaxFragments == 3

\* Every answer of at most MaxFragments pieces.
FragmentPlans ==
    {Flatten(fs) : fs \in UNION {[1..n -> PlanFragments] : n \in 1..MaxFragments}}

\* `${fileName}` inside a template literal.
NameText(fileName) == fileName.text

Block(name, body) ==
    FILE_START_LIT \o name \o <<"]", "\n">> \o body \o <<"\n">> \o FILE_END_LIT

\* One well-formed file block named after the requested file; its body names
\* the invocation, so that two runs never return the same files.
BlockFor(fileName, t) ==
    Block(NameText(fileName), <<"v", IF t = 1 THEN "1" ELSE IF t = 2 THEN "2" ELSE "3">>)

\* A response with no marker at all.
RAW_RESPONSE == <<"c","o","n","s","t"," ","x"," ","="," ","1",";">>

EXTRA_NAME == <<"x",".","m","d">>

\* A response whose content is the empty string.
EMPTY_RESPONSE == <<>>

SystemBuilds(fileName, t) == {BlockFor(fileName, t)}

\* One block, no block, nothing, two blocks, one block under another name.
RichBuilds(fileName, t) ==
    { BlockFor(fileName, t),
      RAW_RESPONSE,
      EMPTY_RESPONSE,
      BlockFor(fileName, t) \o Block(EXTRA_NAME, <<"w">>),
      Block(EXTRA_NAME, <<"w">>) }

\* The answers a builder call may give: every shape, or the one block.
Builds(anyShape, fileName, t) ==
    IF anyShape THEN RichBuilds(fileName, t) ELSE SystemBuilds(fileName, t)

\* The reply of the consultant to a brainstorm query.
ReplyFor(t) == <<"R", IF t = 1 THEN "1" ELSE IF t = 2 THEN "2" ELSE "3">>


(***************************************************************************)
(* PROGRESS                                                                *)
(***************************************************************************)

\* The percentages of the status texts.
BOOT_PERCENT == 0

RESYNC_PERCENT == 10

PLAN_PERCENT == 10

BUILD_BAND == 80

LEGACY_BUILD_BAND == 70

AUDIT_PERCENT == 95

LEGACY_AUDIT_PERCENT == 90

DONE_PERCENT == 100

\* A band of 100: the last file is announced at 110%.
BuildPercentWholeBand(i, n) == PLAN_PERCENT + (2 * DONE_PERCENT * i + n) \div (2 * n)

\* Math.round(10 + progress) after i additions of band / n to progress.
BuildPercent(i, n) ==
    LET band == IF variant = "part_000" THEN BUILD_BAND ELSE LEGACY_BUILD_BAND
    IN  (2 * (PLAN_PERCENT * n + band * i) + n) \div (2 * n)

AuditPercent == IF variant = "part_000" THEN AUDIT_PERCENT ELSE LEGACY_AUDIT_PERCENT

(***************************************************************************)
(* THE messageCreate HANDLER AND swarmGenerate, ONE ACTION PER AWAIT       *)
(* The pc of a task names the promise it is waiting for.                   *)
(***************************************************************************)

\* A handler head that does not look at the argument.
FirstAwaitAnyArgument(cmd, arg) ==
    IF cmd = "spawn" THEN "statusReply"
    ELSE IF cmd \in {"tweak", "brainstorm"} THEN "getState"
    ELSE "helpReply"

\* The synchronous head of the handler, up to its first await.
FirstAwait(cmd, arg) ==
    IF cmd = "spawn" THEN (IF arg = <<>> THEN "usageReply" ELSE "statusReply")
    ELSE IF cmd = "tweak" THEN "getState"
    ELSE IF cmd = "brainstorm" THEN (IF arg = <<>> THEN "usageReply" ELSE "getState")
    ELSE "helpReply"

\* The handler of task s has started and not ended.
Running(s) == tasks[s].pc \notin {"idle", "done"}

\* A message arrives: tasks are numbered in the order of arrival.  The
\* program of index.js has no brainstorm branch: the message is ignored.
Receive(t, u, cmd, arg) ==
    /\ tasks[t].pc = "idle"
    /\ \A s \in 1..(t - 1) : tasks[s].pc # "idle"
    /\ LET clash == {s \in Tasks \ {t} : Running(s) /\ tasks[s].user = u}
           tk    == [IdleTask EXCEPT !.user = u, !.cmd = cmd, !.arg = arg,
                                     !.before = db[u], !.overlap = clash # {}]
           new   == IF variant = "index.js" /\ cmd = "brainstorm"
                    THEN Finished(tk, "ignored")
                    ELSE [tk EXCEPT !.pc = FirstAwait(cmd, arg)]
       IN  tasks' = [s \in Tasks |->
                       IF s = t THEN new
                       ELSE IF s \in clash THEN [tasks[s] EXCEPT !.overlap = TRUE]
                       ELSE tasks[s]]
    /\ UNCHANGED <<call, result, variant, db, completed>>

\* return message.reply(usage), outside every try block.
UsageReply(t) ==
    /\ tasks[t].pc = "usageReply"
    /\ \/ Set(t, Finished(tasks[t], "usage"))
       \/ Set(t, Unhandled(tasks[t], "platform"))
    /\ UNCHANGED <<call, result, variant, db, completed>>

\* return message.reply(help or dashboard embed)
HelpReply(t) ==
    /\ tasks[t].pc = "helpReply"
    /\ \/ Set(t, Finished(tasks[t], "help"))
       \/ Set(t, Unhandled(tasks[t], "platform"))
    /\ UNCHANGED <<call, result, variant, db, completed>>

\* if (!state) return safeReply(message, 'Pehle kuch banwa toh lo! ...')
PreconditionReply(t) ==
    /\ tasks[t].pc = "preconditionReply"
    /\ \/ Set(t, Finished(tasks[t], "precondition"))
       \/ Set(t, Unhandled(tasks[t], "platform"))
    /\ UNCHANGED <<call, result, variant, db, completed>>

\* const statusMsg = await message.reply({ embeds: [statusEmbed] }), before
\* the try block; then getContext is called.
StatusReply(t) ==
    /\ tasks[t].pc = "statusReply"
    /\ \/ Set(t, [tasks[t] EXCEPT
                    !.pc = "getContext",
                    !.percents = <<IF tasks[t].cmd = "spawn"
                                   THEN BOOT_PERCENT ELSE RESYNC_PERCENT>>])
       \/ Set(t, Unhandled(tasks[t], "platform"))
    /\ UNCHANGED <<call, result, variant, db, completed>>

\* A spawn that never looks at the stored plan.
SpawnRequestNoPlan(st, prompt) ==
    [kind |-> "spawn", plan |-> None, text |-> prompt, previous |-> None]

\* The prompt handed to swarmGenerate: fullPrompt of spawn (the approved plan
\* goes first when state?.lastPlan is truthy), the TWEAK PROJECT text of tweak
\* (with state.lastResponse, null included).
SpawnRequest(st, prompt) ==
    [ kind     |-> "spawn",
      plan     |-> IF IsSome(st) /\ Truthy(Get(st).lastPlan)
                   THEN Get(st).lastPlan ELSE None,
      text     |-> prompt,
      previous |-> None ]

TweakRequest(st, tweakRequest) ==
    [ kind     |-> "tweak",
      plan     |-> None,
      text     |-> tweakRequest,
      previous |-> Get(st).lastResponse ]

\* swarmGenerate is entered: the 10% description is set and the edit awaited.
EnterSwarm(tk, request) == [tk EXCEPT !.request = request, !.pc = "planEdit"]

\* const context = await getContext(message.guild), inside the try block;
\* state.lastResponse of a null state would be a TypeError.
GetContext(t) ==
    /\ tasks[t].pc = "getContext"
    /\ LET tk == tasks[t]
       IN  \/ IF tk.cmd = "tweak"
              THEN IF IsSome(tk.state)
                   THEN Set(t, EnterSwarm(tk, TweakRequest(tk.state, tk.arg)))
                   ELSE Set(t, Thrown(tk, "type"))
              ELSE IF variant = "part_000"
                   THEN Set(t, [tk EXCEPT !.pc = "getState"])
                   ELSE Set(t, EnterSwarm(tk, SpawnRequest(None, tk.arg)))
           \/ Set(t, Thrown(tk, "platform"))
    /\ UNCHANGED <<call, result, variant, db, completed>>

\* The tweak handler without the check of line 317.
TweakGateNoCheck(st, tweakRequest) ==
    IF tweakRequest = <<>> THEN "usageReply" ELSE "statusReply"

\* if (!state) return safeReply(...); if (!tweakRequest) return message.reply(...)
TweakGate(st, tweakRequest) ==
    IF ~IsSome(st) THEN "preconditionReply"
    ELSE IF tweakRequest = <<>> THEN "usageReply"
    ELSE "statusReply"

\* const state = await getGhostState(message.author.id): inside the try block
\* of spawn, before it in tweak and brainstorm.
GetState(t) ==
    /\ tasks[t].pc = "getState"
    /\ LET tk == tasks[t]
           st == getGhostState(tk.user)
           rd == [tk EXCEPT !.state = st]
       IN  \/ IF tk.cmd = "spawn"
              THEN Set(t, EnterSwarm(rd, SpawnRequest(st, tk.arg)))
              ELSE IF tk.cmd = "tweak"
                   THEN Set(t, [rd EXCEPT !.pc = TweakGate(st, tk.arg)])
                   ELSE Set(t, [rd EXCEPT !.pc = "bsWait",
                                          !.genCalls = tk.genCalls + 1])
           \/ IF tk.cmd = "spawn"
              THEN Set(t, Thrown(tk, "store"))
              ELSE Set(t, Unhandled(tk, "store"))
    /\ UNCHANGED <<call, result, variant, db, completed>>

\* await statusMsg.edit (10%), then the architect call is issued.
PlanEdit(t) ==
    /\ tasks[t].pc = "planEdit"
    /\ LET tk == tasks[t]
       IN  \/ Set(t, [tk EXCEPT !.pc = "planWait",
                                !.percents = Append(tk.percents, PLAN_PERCENT),
                                !.genCalls = tk.genCalls + 1])
           \/ Set(t, Thrown(tk, "progress"))
    /\ UNCHANGED <<call, result, variant, db, completed>>

\* A loop that is left after its first iteration.
LoopHeadEarlyExit(tk) ==
    IF tk.built >= 1 \/ tk.filesToBuild = <<>> THEN [tk EXCEPT !.pc = "auditEdit"]
    ELSE [tk EXCEPT !.pc = "buildEdit"]

\* A loop head that issues the build call without the progress update.
LoopHeadSilent(tk) ==
    IF tk.built >= Len(tk.filesToBuild) THEN [tk EXCEPT !.pc = "auditEdit"]
    ELSE [tk EXCEPT !.pc = "buildWait", !.genCalls = tk.genCalls + 1]

\* A loop that starts over when its list is exhausted.
LoopHeadAgain(tk) ==
    IF tk.built >= Len(tk.filesToBuild) /\ tk.filesToBuild = <<>>
    THEN [tk EXCEPT !.pc = "auditEdit"]
    ELSE [tk EXCEPT !.pc = "buildEdit",
                    !.built = IF tk.built >= Len(tk.filesToBuild) THEN 0 ELSE tk.built,
                    !.finalFiles = IF tk.built >= Len(tk.filesToBuild) THEN <<>> ELSE tk.finalFiles,
                    !.contrib = IF tk.built >= Len(tk.filesToBuild) THEN <<>> ELSE tk.contrib,
                    !.responses = IF tk.built >= Len(tk.filesToBuild) THEN <<>> ELSE tk.responses,
                    !.genCalls = IF tk.built >= Len(tk.filesToBuild) THEN 1 ELSE tk.genCalls,
                    !.percents = IF tk.built >= Len(tk.filesToBuild)
                                 THEN SubSeq(tk.percents, 1, 2) ELSE tk.percents,
                    !.persona = IF tk.built >= Len(tk.filesToBuild)
                                THEN SelectPersona(tk.persona, tk.filesToBuild[1].text)
                                ELSE SelectPersona(tk.persona,
                                                   tk.filesToBuild[tk.built + 1].text)]

\* The head of one iteration of the build loop, up to its await:
\* fileName.match(...) of the persona selection throws on a value that is
\* not a string (part_000); then the description is set and the edit awaited.
LoopHead(tk) ==
    IF tk.built >= Len(tk.filesToBuild) THEN [tk EXCEPT !.pc = "auditEdit"]
    ELSE IF variant = "part_000" /\ tk.filesToBuild[tk.built + 1].kind # "string"
         THEN Thrown(tk, "type")
    ELSE [tk EXCEPT !.pc = "buildEdit",
                    !.persona = IF variant = "part_000"
                                THEN SelectPersona(tk.persona,
                                                   tk.filesToBuild[tk.built + 1].text)
                                ELSE "BUILDER"]

\* The plan call returns or fails; the overview and the file list are
\* extracted and the build loop is entered.
PlanReturn(t, plans) ==
    /\ tasks[t].pc = "planWait"
    /\ LET tk == tasks[t]
       IN  \/ \E planContent \in plans :
                 LET pf == IF variant = "part_000"
                           THEN PlanFiles(planContent)
                           ELSE LegacyPlanFiles(planContent)
                     ov == IF variant = "part_000"
                           THEN OverviewText(planContent)
                           ELSE planContent
                 IN  IF pf.raised
                     THEN Set(t, Thrown([tk EXCEPT !.planAnswer = Some(planContent)],
                                        "parse"))
                     ELSE Set(t, LoopHead([tk EXCEPT
                                             !.planAnswer = Some(planContent),
                                             !.planContent = planContent,
                                             !.overview = ov,
                                             !.filesToBuild = pf.files,
                                             !.built = 0,
                                             !.finalFiles = <<>>]))
           \/ Set(t, Thrown(tk, "generation"))
    /\ UNCHANGED <<call, result, variant, db, completed>>

\* await statusMsg.edit (building fileName), then the build call is issued.
BuildEdit(t) ==
    /\ tasks[t].pc = "buildEdit"
    /\ LET tk == tasks[t]
       IN  \/ Set(t, [tk EXCEPT
                        !.pc = "buildWait",
                        !.percents = Append(tk.percents,
                                            BuildPercent(tk.built + 1, Len(tk.filesToBuild))),
                        !.genCalls = tk.genCalls + 1])
           \/ Set(t, Thrown(tk, "progress"))
    /\ UNCHANGED <<call, result, variant, db, completed>>

\* { name: fileName.replace(/[*#]/g, ''), content: <the raw response> };
\* index.js keeps fileName as it is.
FallbackArtifact(fileName, raw) ==
    [ name    |-> IF variant = "part_000" THEN JStr(StripMarkup(fileName.text)) ELSE fileName,
      content |-> raw ]

\* The build step without the fallback of line 187.
BuiltNoFallback(fileName, raw) == parseFiles(raw)

\* What one build response adds to finalFiles.
Built(fileName, raw) ==
    LET extracted == parseFiles(raw)
    IN  IF Len(extracted) > 0 THEN extracted ELSE <<FallbackArtifact(fileName, raw)>>

\* The build call of the current file returns or fails.
BuildReturn(t, anyShape) ==
    /\ tasks[t].pc = "buildWait"
    /\ LET tk       == tasks[t]
           fileName == tk.filesToBuild[tk.built + 1]
       IN  \/ \E raw \in Builds(anyShape, fileName, t) :
                 Set(t, LoopHead([tk EXCEPT
                                    !.finalFiles = tk.finalFiles \o Built(fileName, raw),
                                    !.contrib = Append(tk.contrib, Len(Built(fileName, raw))),
                                    !.responses = Append(tk.responses, raw),
                                    !.built = tk.built + 1]))
           \/ Set(t, Thrown(tk, "generation"))
    /\ UNCHANGED <<call, result, variant, db, completed>>

\* What a returning swarmGenerate has done: its files, how many iterations
\* of the loop it completed, how many files its plan had.
Returned(tk) ==
    [files |-> tk.finalFiles, built |-> tk.built, planned |-> Len(tk.filesToBuild)]

\* An audit phase that sends the files to the auditor persona: one more
\* generation call.
AuditEditWithCall(t) ==
    /\ tasks[t].pc = "auditEdit"
    /\ LET tk == tasks[t]
       IN  \/ /\ Set(t, [tk EXCEPT !.pc = "save",
                                   !.percents = Append(tk.percents, AuditPercent),
                                   !.genCalls = tk.genCalls + 1])
              /\ completed' = completed \cup {Returned(tk)}
           \/ /\ Set(t, Thrown(tk, "progress"))
              /\ UNCHANGED completed
    /\ UNCHANGED <<call, result, variant, db>>

\* await statusMsg.edit (audit); swarmGenerate returns { files, overview }
\* and the handler calls saveGhostState.
AuditEdit(t) ==
    /\ tasks[t].pc = "auditEdit"
    /\ LET tk == tasks[t]
       IN  \/ /\ Set(t, [tk EXCEPT !.pc = "save",
                                   !.percents = Append(tk.percents, AuditPercent)])
              /\ completed' = completed \cup {Returned(tk)}
           \/ /\ Set(t, Thrown(tk, "progress"))
              /\ UNCHANGED completed
    /\ UNCHANGED <<call, result, variant, db>>

\* A saved state that drops the plan.
BuildStateNoPlan(tk) ==
    [ lastResponse |-> Some(JSONstringify(tk.finalFiles)),
      lastPrompt   |-> Some(tk.arg),
      lastPlan     |-> None ]

\* The state object spawn and tweak save.
BuildState(tk) ==
    [ lastResponse |-> Some(JSONstringify(tk.finalFiles)),
      lastPrompt   |-> Some(tk.arg),
      lastPlan     |-> IF IsSome(tk.state) THEN Get(tk.state).lastPlan ELSE None ]

\* await saveGhostState(...); then, files.length > 0: the archive is built
\* and the 100% edit awaited, else the failure text is edited in.
Save(t) ==
    /\ tasks[t].pc = "save"
    /\ LET tk == tasks[t]
       IN  \/ /\ db' = saveGhostState(tk.user, BuildState(tk))
              /\ Set(t, [tk EXCEPT !.wrote = TRUE,
                                   !.pc = IF Len(tk.finalFiles) > 0
                                          THEN "deliverEdit" ELSE "nofilesEdit"])
           \/ /\ Set(t, Thrown(tk, "store"))
              /\ UNCHANGED db
    /\ UNCHANGED <<call, result, variant, completed>>

\* The status edit after the save: files.length > 0 gives the 100% text, and
\* then the reply with the archive is sent; the else branch edits in its
\* "failed to generate files" / "Complete." text and the handler ends.
FinalEdit(t) ==
    /\ tasks[t].pc \in {"deliverEdit", "nofilesEdit"}
    /\ LET tk == tasks[t]
       IN  \/ IF tk.pc = "deliverEdit"
              THEN Set(t, [tk EXCEPT !.pc = "deliverReply",
                                     !.percents = Append(tk.percents, DONE_PERCENT)])
              ELSE Set(t, Finished(tk, "nofiles"))
           \/ Set(t, Thrown(tk, "platform"))
    /\ UNCHANGED <<call, result, variant, db, completed>>

\* await safeReply(message, overview, { files: [attachment] })
DeliverReply(t) ==
    /\ tasks[t].pc = "deliverReply"
    /\ \/ Set(t, Finished(tasks[t], "delivered"))
       \/ Set(t, Thrown(tasks[t], "platform"))
    /\ UNCHANGED <<call, result, variant, db, completed>>

\* catch (error): await statusMsg.edit({ content: error.message })
ErrorEdit(t) ==
    /\ tasks[t].pc = "errorEdit"
    /\ LET tk == tasks[t]
       IN  \/ Set(t, [Finished(tk, "error") EXCEPT !.reports = tk.reports + 1])
           \/ Set(t, [tk EXCEPT !.pc = "done", !.outcome = "crashed"])
    /\ UNCHANGED <<call, result, variant, db, completed>>

\* The consultant call of brainstorm returns or fails (no try block).
BrainstormReturn(t) ==
    /\ tasks[t].pc = "bsWait"
    /\ LET tk == tasks[t]
       IN  \/ Set(t, [tk EXCEPT !.pc = "bsSave", !.reply = ReplyFor(t)])
           \/ Set(t, Unhandled(tk, "generation"))
    /\ UNCHANGED <<call, result, variant, db, completed>>

\* A saved state that holds the reply and nothing of the state read.
PlanStateFresh(tk) ==
    [ lastResponse |-> None, lastPrompt |-> None, lastPlan |-> Some(tk.reply) ]

\* { ...state, lastPlan: reply }
PlanState(tk) ==
    [ lastResponse |-> IF IsSome(tk.state) THEN Get(tk.state).lastResponse ELSE None,
      lastPrompt   |-> IF IsSome(tk.state) THEN Get(tk.state).lastPrompt ELSE None,
      lastPlan     |-> Some(tk.reply) ]

\* await saveGhostState(message.author.id, { ...state, lastPlan: reply })
BrainstormSave(t) ==
    /\ tasks[t].pc = "bsSave"
    /\ LET tk == tasks[t]
       IN  \/ /\ db' = saveGhostState(tk.user, PlanState(tk))
              /\ Set(t, [tk EXCEPT !.wrote = TRUE, !.pc = "bsReply"])
           \/ /\ Set(t, Unhandled(tk, "store"))
              /\ UNCHANGED db
    /\ UNCHANGED <<call, result, variant, completed>>

\* return safeReply(message, reply)
BrainstormReply(t) ==
    /\ tasks[t].pc = "bsReply"
    /\ \/ Set(t, Finished(tasks[t], "replied"))
       \/ Set(t, Unhandled(tasks[t], "platform"))
    /\ UNCHANGED <<call, result, variant, db, completed>>

(***************************************************************************)
(* SPECIFICATIONS                                                          *)
(***************************************************************************)

\* No message has arrived yet.
Quiet ==
    /\ variant \in Variants
    /\ db = [u \in Users |-> None]
    /\ tasks = [t \in Tasks |-> IdleTask]
    /\ completed = {}

InitAny == Quiet /\ call = NoCall /\ result = None

\* The bot of part_000 after initDB on an empty table.
Init == InitAny /\ variant = "part_000"

Step(t, plans, anyShape) ==
    \/ \E u \in Users, cmd \in Commands, arg \in ArgsOf(t) : Receive(t, u, cmd, arg)
    \/ UsageReply(t)
    \/ HelpReply(t)
    \/ PreconditionReply(t)
    \/ StatusReply(t)
    \/ GetContext(t)
    \/ GetState(t)
    \/ PlanEdit(t)
    \/ PlanReturn(t, plans)
    \/ BuildEdit(t)
    \/ BuildReturn(t, anyShape)
    \/ AuditEdit(t)
    \/ Save(t)
    \/ FinalEdit(t)
    \/ DeliverReply(t)
    \/ ErrorEdit(t)
    \/ BrainstormReturn(t)
    \/ BrainstormSave(t)
    \/ BrainstormReply(t)

Next == \E t \in Tasks : Step(t, SystemPlans, FALSE)

Spec == Init /\ [][Next]_vars

\* Both programs of the repository.
SpecAny == InitAny /\ [][Next]_vars

\* One invocation of the handler, with every answer of the generation
\* service the model knows.
NextPipeline == Step(1, RichPlans, TRUE)

SpecPipeline == Init /\ [][NextPipeline]_vars

SpecPipelineAny == InitAny /\ [][NextPipeline]_vars

\* One invocation of the handler of part_000, the architect answering with
\* any text assembled from the fragments.
NextPlans == Step(1, FragmentPlans, FALSE)

SpecPlans == Init /\ [][NextPlans]_vars


\* [FILE_LIST: ["a.js","a.js"]]: the same name twice.
PLAN_DUPLICATE == <<"[","F","I","L","E","_","L","I","S","T",":"," ","[","\"","a",".","j","s","\"",",","\"","a",".","j","s","\"","]","]">>

\* [FILE_LIST: [7,"a.js"]]: an element that is no string.
PLAN_MIXED == <<"[","F","I","L","E","_","L","I","S","T",":"," ","[","7",",","\"","a",".","j","s","\"","]","]">>

\* The plans of the specification of the file list: distinct names, a
\* repeated name, an element that is no string.
ListPlans == {PLAN_E2E, PLAN_DUPLICATE, PLAN_MIXED}

\* One invocation of the handler on those plans.
NextLists == Step(1, ListPlans, FALSE)

SpecLists == InitAny /\ [][NextLists]_vars

\* The largest number of files a plan of the progress specification names.
MaxFiles == 9

\* The letters that tell the files of one plan apart.
FILE_TAGS ==
    <<"a", "b", "c", "d", "e", "f", "g", "h", "i", "j", "k", "l", "m", "n", "o",
      "p", "q", "r", "s", "t">>

\* [FILE_LIST: ["a","b",...]] with k names: an architect's answer that
\* plans k files.
PlanOfLength(k) ==
    FILE_LIST_LIT \o <<" ", "[">>
       \o Flatten([i \in 1..k |->
                      (IF i > 1 THEN <<",">> ELSE <<>>)
                         \o <<"\"", FILE_TAGS[i], "\"">>])
       \o <<"]", "]">>

LongPlans == {PlanOfLength(k) : k \in 1..MaxFiles}

\* One invocation of the handler, the architect planning any number of
\* files up to MaxFiles.
NextProgress == Step(1, LongPlans, FALSE)

SpecProgress == InitAny /\ [][NextProgress]_vars


(***************************************************************************)
(* THE FILE LIST OF THE PLAN                                               *)
(***************************************************************************)

\* The positions of a handler inside the build loop of swarmGenerate and at
\* its end.
LoopPcs == {"buildEdit", "buildWait", "auditEdit"}

\* [FILE_LIST: ["a.js","b.css"]]
VALID_SECTION == FRAG_MARKER \o FRAG_ARRAY \o FRAG_CLOSE

E2E_FILES == << JStr(<<"a",".","j","s">>), JStr(<<"b",".","c","s","s">>) >>

\* C1 as stated: when the architect's answer holds the section
\* [FILE_LIST: ["a.js","b.css"]], the build phase runs over exactly a.js and
\* b.css, in that order.
C1_ValidListIsBuilt ==
    \A t \in Tasks :
        LET tk == tasks[t]
        IN  (tk.pc \in LoopPcs /\ IndexOf(tk.planContent, VALID_SECTION) # 0)
               => tk.filesToBuild = E2E_FILES

\* C2 as stated: when the FILE_LIST payload is not valid JSON or not a list,
\* the run does not raise; the build phase proceeds over exactly the three
\* fallback names.
C2_BrokenListFallsBack ==
    \A t \in Tasks :
        LET tk == tasks[t]
        IN  tk.planAnswer \in {Some(PLAN_BROKEN), Some(PLAN_NOT_ARRAY)}
               => /\ tk.error # "parse"
                  /\ tk.pc \in LoopPcs => tk.filesToBuild = FALLBACK_FILES

\* C3: the build loop of part_000 runs over at least one name; when the plan
\* has no FILE_LIST section, or the list extracted from it is empty, it runs
\* over exactly index.js, package.json, README.md.
C3_LoopNeverEmpty ==
    \A t \in Tasks :
        LET tk == tasks[t]
        IN  tk.pc \in LoopPcs
               => /\ Len(tk.filesToBuild) >= 1
                  /\ tk.pc = "auditEdit" => tk.built >= 1
                  /\ (\/ IndexOf(tk.planContent, FILE_LIST_LIT) = 0
                      \/ TryFileList(tk.planContent).items = <<>>)
                        => tk.filesToBuild = FALLBACK_FILES

\* A run whose plan has no FILE_LIST section has built the three fallback
\* files.
C3_Witness ==
    \E t \in Tasks :
        LET tk == tasks[t]
        IN  /\ tk.pc = "auditEdit"
            /\ IndexOf(tk.planContent, FILE_LIST_LIT) = 0
            /\ tk.filesToBuild = FALLBACK_FILES
            /\ tk.built = 3


(***************************************************************************)
(* THE BUILD PHASE AND THE RESULT OF THE PIPELINE                          *)
(***************************************************************************)

RECURSIVE SumSeq(_)
SumSeq(ns) == IF ns = <<>> THEN 0 ELSE Head(ns) + SumSeq(Tail(ns))

\* swarmGenerate has returned to the handler of task t.
SwarmReturned(tk) ==
    \/ tk.pc \in {"save", "deliverEdit", "deliverReply", "nofilesEdit"}
    \/ tk.pc = "done" /\ tk.outcome \in {"delivered", "nofiles"}

\* C4 as stated: the result of a successful run has exactly as many
\* artifacts as the plan's file list has names.
C4_ExactlyOnePerFile ==
    \A t \in Tasks :
        LET tk == tasks[t]
        IN  SwarmReturned(tk) => Len(tk.finalFiles) = Len(tk.filesToBuild)

\* C4 amended: every planned file yields at least one artifact; the loop
\* runs once per name of the list, each iteration adds one artifact or more,
\* and the result holds what the iterations added, so it has at least as
\* many artifacts as the list has names.
C4_AtLeastOnePerFile ==
    \A t \in Tasks :
        LET tk == tasks[t]
        IN  /\ tk.pc \in LoopPcs => Len(tk.contrib) = tk.built
            /\ (SwarmReturned(tk) \/ tk.pc = "auditEdit")
                  => /\ Len(tk.contrib) = Len(tk.filesToBuild)
                     /\ \A i \in 1..Len(tk.contrib) : tk.contrib[i] >= 1
                     /\ Len(tk.finalFiles) = SumSeq(tk.contrib)
                     /\ Len(tk.finalFiles) >= Len(tk.filesToBuild)

\* A delivered run in which one response gave two artifacts and another
\* gave the single fallback artifact.
C4_Witness ==
    \E t \in Tasks :
        LET tk == tasks[t]
        IN  /\ tk.outcome = "delivered"
            /\ \E i, j \in 1..Len(tk.contrib) :
                   /\ tk.contrib[i] = 2
                   /\ parseFiles(tk.responses[j]) = <<>>
            /\ Len(tk.finalFiles) > Len(tk.filesToBuild)

\* F with every "*" and "#" removed.
WithoutMarkup(name) == SelectSeq(name, LAMBDA c : c \notin {"*", "#"})

\* The number of artifacts the iterations before the i-th added.
Offset(tk, i) == SumSeq(SubSeq(tk.contrib, 1, i - 1))

\* C5 as stated: when the Output Parser finds no artifact in the response to
\* planned file F, the build phase adds exactly one artifact for it, named F
\* without "*" and "#", whose content is the whole raw response.
C5_FallbackArtifact ==
    \A t \in Tasks :
        LET tk == tasks[t]
        IN  \A i \in 1..Len(tk.responses) :
               parseFiles(tk.responses[i]) = <<>>
                  => /\ tk.contrib[i] = 1
                     /\ tk.finalFiles[Offset(tk, i) + 1] =
                           [ name    |-> JStr(WithoutMarkup(tk.filesToBuild[i].text)),
                             content |-> tk.responses[i] ]

OVERVIEW_E2E == <<"T","o","d","o"," ","a","p","p">>

\* The names of a list of artifacts.
NamesOf(files) == [i \in 1..Len(files) |-> files[i].name]

\* C6 as stated, in its particular case: when the plan is
\* [OVERVIEW_START]Todo app[OVERVIEW_END][FILE_LIST: ["a.js","b.css"]] and
\* every build response is one well-formed block named after the requested
\* file, swarmGenerate returns exactly two artifacts named a.js and b.css, in
\* that order, and the overview "Todo app".
C6_EndToEnd ==
    \A t \in Tasks :
        LET tk == tasks[t]
        IN  ( /\ SwarmReturned(tk)
              /\ tk.planAnswer = Some(PLAN_E2E)
              /\ \A i \in 1..Len(tk.responses) :
                     tk.responses[i] = BlockFor(tk.filesToBuild[i], t) )
               => /\ NamesOf(tk.finalFiles) = E2E_FILES
                  /\ tk.overview = OVERVIEW_E2E


(***************************************************************************)
(* THE STORE                                                               *)
(***************************************************************************)

\* No command of the requester of task t that arrived after it has written
\* the store (tasks are numbered in the order of arrival).
NoLaterWrite(t) ==
    \A s \in Tasks : (s > t /\ tasks[s].user = tasks[t].user) => ~tasks[s].wrote

\* Task t ran alone among the commands of its requester and nothing of the
\* requester wrote after it: the requester's row is as task t left it.
Undisturbed(t) == ~tasks[t].overlap /\ NoLaterWrite(t)

\* C7 as stated: a spawn or tweak that ends in failure, at whatever step,
\* leaves the requester's stored memory equal to its value before the
\* command.
C7_FailureLeavesMemory ==
    \A t \in Tasks :
        LET tk == tasks[t]
        IN  ( /\ tk.cmd \in {"spawn", "tweak"}
              /\ tk.pc = "done"
              /\ tk.outcome \in {"error", "crashed"}
              /\ Undisturbed(t) )
               => db[tk.user] = tk.before

\* C8: the stored lastResponse of every requester is absent or the serialized
\* file list returned by one run of swarmGenerate that completed one
\* iteration for every file of its plan; a run that failed inside
\* swarmGenerate has written nothing.
C8_NoPartialBuild ==
    /\ \A c \in completed : c.built = c.planned /\ Len(c.files) >= c.planned
    /\ \A u \in Users :
          (IsSome(db[u]) /\ IsSome(Get(db[u]).lastResponse))
             => \E c \in completed :
                   Get(db[u]).lastResponse = Some(JSONstringify(c.files))
    /\ \A t \in Tasks :
          tasks[t].error \in {"generation", "parse", "type"} => ~tasks[t].wrote

\* One run was aborted by a failing build call after its first file, and the
\* requester's row holds the files of another run.
C8_Witness ==
    \E t \in Tasks :
        /\ tasks[t].error = "generation"
        /\ tasks[t].built >= 1
        /\ tasks[t].pc = "done"
        /\ IsSome(db[tasks[t].user])
        /\ IsSome(Get(db[tasks[t].user]).lastResponse)

\* The handler of a tweak has read the requester's row and found none.
TweakWithoutMemory(tk) ==
    tk.cmd = "tweak" /\ tk.pc \notin {"idle", "getState"} /\ ~IsSome(tk.state)

\* C9: a tweak for a requester without stored memory answers with the
\* precondition reply, calls the generation service never, and creates or
\* changes no row.
C9_TweakPrecondition ==
    \A t \in Tasks :
        LET tk == tasks[t]
        IN  TweakWithoutMemory(tk)
               => /\ tk.pc \in {"preconditionReply", "done"}
                  /\ tk.pc = "done" => tk.outcome \in {"precondition", "crashed"}
                  /\ tk.genCalls = 0
                  /\ ~tk.wrote
                  /\ Undisturbed(t) => db[tk.user] = tk.before

\* A tweak of a requester without a row has ended with the precondition
\* reply, and there is still no row.
C9_Witness ==
    \E t \in Tasks :
        /\ TweakWithoutMemory(tasks[t])
        /\ tasks[t].outcome = "precondition"
        /\ db[tasks[t].user] = None

\* The handler of task t is past its save and has not failed since.
Succeeding(tk) ==
    \/ tk.pc \in {"deliverEdit", "deliverReply"}
    \/ tk.pc = "done" /\ tk.outcome = "delivered"

\* C10: after a tweak that succeeds with no overlapping command of the same
\* requester, the row holds the serialized files of the new result, the
\* tweak instruction as lastPrompt, and the lastPlan it had before the tweak.
C10_TweakSuccess ==
    \A t \in Tasks :
        LET tk == tasks[t]
        IN  (tk.cmd = "tweak" /\ Succeeding(tk) /\ Undisturbed(t))
               => /\ IsSome(db[tk.user])
                  /\ Get(db[tk.user]).lastResponse = Some(JSONstringify(tk.finalFiles))
                  /\ Get(db[tk.user]).lastPrompt = Some(tk.arg)
                  /\ Get(db[tk.user]).lastPlan = Get(tk.before).lastPlan

\* A delivered tweak of a requester whose row held a plan before it.
C10_Witness ==
    \E t \in Tasks :
        LET tk == tasks[t]
        IN  /\ tk.cmd = "tweak"
            /\ tk.outcome = "delivered"
            /\ Undisturbed(t)
            /\ IsSome(tk.before)
            /\ IsSome(Get(tk.before).lastPlan)
            /\ Len(tk.finalFiles) = 3


\* The handler of a brainstorm is past its save and has not failed since.
Replying(tk) ==
    \/ tk.pc = "bsReply"
    \/ tk.pc = "done" /\ tk.outcome = "replied"

\* The column col of a row that may be absent.
ColumnOf(row, col) == IF IsSome(row) THEN Get(row)[col] ELSE None

\* C11: a brainstorm with a non-empty query calls the generation service
\* exactly once; when no other command of the requester overlaps it, the row
\* afterwards has the reply as lastPlan and the lastResponse and lastPrompt
\* it had before (none of them when there was no row).
C11_BrainstormFrame ==
    \A t \in Tasks :
        LET tk == tasks[t]
        IN  tk.cmd = "brainstorm"
               => /\ tk.genCalls <= 1
                  /\ (tk.pc \in {"bsWait", "bsSave"} \/ Replying(tk)) => tk.genCalls = 1
                  /\ (Replying(tk) /\ Undisturbed(t))
                        => db[tk.user] =
                             Some(Row(ColumnOf(tk.before, "lastResponse"),
                                      ColumnOf(tk.before, "lastPrompt"),
                                      Some(tk.reply)))

\* A brainstorm has replied to a requester whose row held files before it.
C11_Witness ==
    \E t \in Tasks :
        LET tk == tasks[t]
        IN  /\ tk.cmd = "brainstorm"
            /\ tk.outcome = "replied"
            /\ Undisturbed(t)
            /\ IsSome(ColumnOf(tk.before, "lastResponse"))
            /\ Get(db[tk.user]).lastPlan = Some(tk.reply)


(***************************************************************************)
(* THE PERSONA SELECTION, CALLED ON ITS OWN                                *)
(***************************************************************************)

\* File names: one of these stems followed by one of these endings.
NAME_STEMS ==
    { <<"a","u","t","h">>,
      <<"A","u","t","h">>,
      <<"m","a","i","n">>,
      <<"j","w","t">>,
      <<"m","y","_","S","E","C","U","R","I","T","Y">>,
      <<"e","n","c","r","y","p","t">>,
      <<"x",".","h","t","m","l">>,
      <<"a",".","s","q","l">>,
      <<"d","b">>,
      <<>> }

NAME_ENDINGS ==
    { <<".","h","t","m","l">>,
      <<".","c","s","s">>,
      <<".","j","s","x">>,
      <<".","t","s","x">>,
      <<".","s","q","l">>,
      <<".","p","r","i","s","m","a">>,
      <<".","d","b">>,
      <<".","j","s">>,
      <<>>,
      <<".","h","t","m","l","5">> }

RouterNames == {a \o b : a \in NAME_STEMS, b \in NAME_ENDINGS}

\* The persona selection of lines 168-172 runs on call.arg.
CallPersona ==
    /\ call.fn = "persona"
    /\ result = None
    /\ result' = Some(Persona(call.arg))
    /\ UNCHANGED <<variant, db, tasks, completed, call>>

InitRouter ==
    /\ Quiet
    /\ variant = "part_000"
    /\ call \in {[fn |-> "persona", arg |-> n, parts |-> <<>>] : n \in RouterNames}
    /\ result = None

NextRouter == CallPersona

SpecRouter == InitRouter /\ [][NextRouter]_vars

\* The role the rules give when the first matching rule decides.
FirstMatch(fileName) ==
    IF IsFrontend(fileName) THEN "FRONTEND"
    ELSE IF IsDatabase(fileName) THEN "DATABASE"
    ELSE IF IsSecurity(fileName) THEN "SECURITY"
    ELSE "BACKEND"

\* C12 as stated: the role of every file name is the one of the first
\* matching rule in the order front-end suffix, data-layer suffix, security
\* word, backend; auth.html is front-end, auth.sql is data-layer.
C12_FirstMatchWins ==
    (call.fn = "persona" /\ IsSome(result)) => Get(result) = FirstMatch(call.arg)


(***************************************************************************)
(* parseFiles, CALLED ON ITS OWN                                           *)
(***************************************************************************)

\* a.js
NAME_PLAIN == <<"a",".","j","s">>

\*  *b.css# : padded, with markup characters
NAME_MARKED == <<" ","*","b",".","c","s","s","#"," ">>

\* **: markup characters only
NAME_STARS == <<"*","*">>

\* c]d: a closing bracket inside
NAME_BRACKET == <<"c","]","d">>

BLOCK_NAMES == {NAME_PLAIN, NAME_MARKED, NAME_STARS, NAME_BRACKET}

\* A body: a line of code.
BODY_PLAIN == <<"\n","x","=","1","\n">>

\* A body: the same inside a code fence.
BODY_FENCED == <<"\n",BACKTICK,BACKTICK,BACKTICK,"j","s","\n","x","=","1","\n",BACKTICK,BACKTICK,BACKTICK,"\n">>

\* A body: a fenced body with a fence line in its interior.
BODY_INNER_FENCE == <<"\n",BACKTICK,BACKTICK,BACKTICK,"\n","a","\n",BACKTICK,BACKTICK,BACKTICK,"\n","b","\n",BACKTICK,BACKTICK,BACKTICK,"\n">>

\* A body: white space only.
BODY_BLANK == <<" ","\n">>

\* A body: nothing at all.
BODY_EMPTY == <<>>

BLOCK_BODIES == {BODY_PLAIN, BODY_FENCED, BODY_INNER_FENCE, BODY_BLANK, BODY_EMPTY}

\* Text after an end marker that belongs to no block.
GAP_TEXT == <<"o","k","\n">>

\* What follows the body: the end marker, the end marker and a gap, nothing.
BLOCK_TAILS == {"end", "gap", "none"}

BlockParts == [name : BLOCK_NAMES, body : BLOCK_BODIES, tail : BLOCK_TAILS]

\* [FILE_START:name]body[FILE_END]
BlockText(p) ==
    FILE_START_LIT \o p.name \o <<"]">> \o p.body
       \o (IF p.tail = "none" THEN <<>> ELSE FILE_END_LIT)
       \o (IF p.tail = "gap" THEN GAP_TEXT ELSE <<>>)

MaxBlocks == 2

BlockLists == UNION {[1..n -> BlockParts] : n \in 0..MaxBlocks}

\* The text of a list of blocks.
TextOf(ps) == Flatten([k \in 1..Len(ps) |-> BlockText(ps[k])])

\* parseFiles runs on call.arg.
CallParseFiles ==
    /\ call.fn = "parseFiles"
    /\ result = None
    /\ result' = Some(parseFiles(call.arg))
    /\ UNCHANGED <<variant, db, tasks, completed, call>>

InitParser ==
    /\ Quiet
    /\ variant = "part_000"
    /\ call \in {[fn |-> "parseFiles", arg |-> TextOf(ps), parts |-> ps] : ps \in BlockLists}
    /\ result = None

NextParser == CallParseFiles

SpecParser == InitParser /\ [][NextParser]_vars

\* The trimmed body without its code-fence wrapper: without its first line
\* when that line opens a fence, without its last line when that line closes
\* one.
Unwrap(c) ==
    LET nl == IndexOf(c, <<"\n">>)
        opens == /\ nl # 0
                 /\ StartsWithAt(c, 1, FENCE_LIT)
                 /\ \A k \in (Len(FENCE_LIT) + 1)..(nl - 1) : c[k] \in Letters
        c1 == IF opens THEN Slice(c, nl + 1, Len(c)) ELSE c
        ln == LastIndexOf(c1, <<"\n">>)
        closes == ln # 0 /\ Slice(c1, ln + 1, Len(c1)) = FENCE_LIT
    IN  IF closes THEN Slice(c1, 1, ln - 1) ELSE c1

\* The name and the content a block stands for.
ExpectedName(p) == WithoutMarkup(Trim(p.name))

ExpectedContent(p) == Unwrap(Trim(p.body))

ExpectedArtifact(p) == [name |-> JStr(ExpectedName(p)), content |-> ExpectedContent(p)]

\* A block [FILE_START:name] body [FILE_END] with a name and a body.
Proper(p) ==
    /\ p.tail # "none"
    /\ IndexOf(p.name, <<"]">>) = 0
    /\ ExpectedName(p) # <<>>
    /\ Trim(p.body) # <<>>

\* parseFiles has returned from a call on a text of blocks.
Parsed == call.fn = "parseFiles" /\ IsSome(result)

\* C13 as stated: for a text of N blocks [FILE_START:name_i] body_i [FILE_END]
\* with non-empty names and bodies, parseFiles returns exactly N artifacts in
\* block order, artifact i having the name of block i and its body, trimmed
\* and without the code-fence wrapper; the text after an end marker belongs
\* to no artifact.
C13_WellFormed ==
    (Parsed /\ \A k \in 1..Len(call.parts) : Proper(call.parts[k]))
       => Get(result) = [k \in 1..Len(call.parts) |-> ExpectedArtifact(call.parts[k])]

\* The same for the blocks whose body has no fence line in its interior.
C13_WellFormedNoInnerFence ==
    (Parsed /\ \A k \in 1..Len(call.parts) :
                  Proper(call.parts[k]) /\ call.parts[k].body # BODY_INNER_FENCE)
       => Get(result) = [k \in 1..Len(call.parts) |-> ExpectedArtifact(call.parts[k])]

\* The blocks of a text whose body is more than white space.
WithBody(ps) == SelectSeq(ps, LAMBDA p : Trim(p.body) # <<>>)

\* Every block of the text has a name: no closing bracket in it, something
\* left of it after cleaning.
AllNamed(ps) ==
    \A k \in 1..Len(ps) : IndexOf(ps[k].name, <<"]">>) = 0 /\ ExpectedName(ps[k]) # <<>>

\* C14: a start marker whose body is empty or white space before the next
\* start marker, end marker or end of text gives no artifact; the other
\* blocks of the text are still returned, in order, under their names.
C14_EmptyBodyDropped ==
    (Parsed /\ AllNamed(call.parts))
       => /\ Len(Get(result)) = Len(WithBody(call.parts))
          /\ NamesOf(Get(result)) =
                [k \in 1..Len(WithBody(call.parts)) |->
                    JStr(ExpectedName(WithBody(call.parts)[k]))]
          /\ \A k \in 1..Len(Get(result)) : Get(result)[k].content # <<>>

\* A text of two blocks, the first with a blank body and no end marker, has
\* given the one artifact of the second.
C14_Witness ==
    /\ Parsed
    /\ AllNamed(call.parts)
    /\ Len(call.parts) = 2
    /\ Trim(call.parts[1].body) = <<>>
    /\ call.parts[1].tail = "none"
    /\ Len(Get(result)) = 1
    /\ Get(result)[1].name = JStr(ExpectedName(call.parts[2]))

\* The parseFiles of lines 412-420 of index.js runs on call.arg.
CallStrictParseFiles ==
    /\ call.fn = "parseFiles (strict)"
    /\ result = None
    /\ result' = Some(StrictParseFiles(call.arg))
    /\ UNCHANGED <<variant, db, tasks, completed, call>>

\* Either parseFiles of the repository is called on a text of blocks.
InitParserAny ==
    /\ Quiet
    /\ call \in {[fn |-> f, arg |-> TextOf(ps), parts |-> ps] :
                    f \in {"parseFiles", "parseFiles (strict)"}, ps \in BlockLists}
    /\ variant = (IF call.fn = "parseFiles" THEN "part_000" ELSE "index.js")
    /\ result = None

NextParserAny == CallParseFiles \/ CallStrictParseFiles

SpecParserAny == InitParserAny /\ [][NextParserAny]_vars

\* The parser that was called.
Called(text) ==
    IF call.fn = "parseFiles" THEN parseFiles(text) ELSE StrictParseFiles(text)

\* The blocks with the end marker put where it is missing.
Closed(ps) ==
    [k \in 1..Len(ps) |-> IF ps[k].tail = "none" THEN [ps[k] EXCEPT !.tail = "end"] ELSE ps[k]]

\* C15 as stated: the end marker is advisory; a text whose blocks lack their
\* [FILE_END] gives the artifacts, names and contents, of the same text with
\* the end markers present.
C15_EndMarkerAdvisory ==
    (call.fn \in {"parseFiles", "parseFiles (strict)"} /\ IsSome(result))
       => Get(result) = Called(TextOf(Closed(call.parts)))

\* C16 as stated: the content of an artifact is the trimmed body of its block
\* without its first line when that line opens a code fence and without its
\* last line when that line closes one; a fence line in the interior of the
\* body is never removed.
C16_WrapperOnly ==
    (Parsed /\ AllNamed(call.parts))
       => \A k \in 1..Len(Get(result)) :
             k <= Len(WithBody(call.parts))
                => Get(result)[k].content = ExpectedContent(WithBody(call.parts)[k])


(***************************************************************************)
(* THE ARTIFACTS AND THE OVERVIEW OF A RESULT, THE FAILURES OF A RUN       *)
(***************************************************************************)

\* C17 as stated: every artifact of every result, parsed or synthesized, has
\* a non-empty name without "*" and "#" and a non-empty content, whatever
\* the plan call and the build calls return.
C17_ArtifactInvariant ==
    \A t \in Tasks :
        \A k \in 1..Len(tasks[t].finalFiles) :
            LET f == tasks[t].finalFiles[k]
            IN  /\ f.name.kind = "string"
                /\ f.name.text # <<>>
                /\ \A c \in 1..Len(f.name.text) : f.name.text[c] \notin {"*", "#"}
                /\ f.content # <<>>

\* [OVERVIEW_START] \n[OVERVIEW_END]
BLANK_OVERVIEW_SECTION == OVERVIEW_START_LIT \o <<" ", "\n">> \o OVERVIEW_END_LIT

\* C18 as stated: when the plan has an overview section with white space only
\* between its markers, the overview of the result is the placeholder text.
C18_EmptyOverview ==
    \A t \in Tasks :
        LET tk == tasks[t]
        IN  ( /\ SwarmReturned(tk)
              /\ IsSome(tk.planAnswer)
              /\ IndexOf(Get(tk.planAnswer), BLANK_OVERVIEW_SECTION) # 0 )
               => tk.overview = PLACEHOLDER_OVERVIEW

\* C19 as stated: when the plan has no overview section, the run does not
\* fail for it and the overview of the result is the placeholder text.
C19_AbsentOverview ==
    \A t \in Tasks :
        LET tk == tasks[t]
        IN  ( /\ SwarmReturned(tk)
              /\ IsSome(tk.planAnswer)
              /\ IndexOf(Get(tk.planAnswer), OVERVIEW_START_LIT) = 0 )
               => tk.overview = PLACEHOLDER_OVERVIEW

\* C20 as stated: swarmGenerate fails only when one of its generation calls
\* fails; no answer of the service and no behaviour of the progress sink
\* makes it throw.
C20_OnlyGenerationFails ==
    \A t \in Tasks : tasks[t].error \notin {"progress", "parse", "type"}


(***************************************************************************)
(* FAILURES                                                                *)
(***************************************************************************)

\* A spawn or tweak one of whose generation calls has failed.
GenerationFailed(tk) == tk.cmd \in {"spawn", "tweak"} /\ tk.error = "generation"

\* The generation calls issued up to the one that failed: the plan call, or
\* the plan call and one build call for each file up to the failing one.
CallsUntilFailure(tk) == IF IsSome(tk.planAnswer) THEN tk.built + 2 ELSE 1

\* C21: when the plan call fails no build call is issued; when the k-th
\* build call fails no call for a later file is issued; in both cases the
\* handler goes to its error report and ends in failure, nothing is saved
\* or delivered from the files already built, and no call is issued again.
C21_FailFast ==
    \A t \in Tasks :
        LET tk == tasks[t]
        IN  GenerationFailed(tk)
               => /\ tk.genCalls = CallsUntilFailure(tk)
                  /\ ~IsSome(tk.planAnswer) => tk.built = 0
                  /\ tk.pc \in {"errorEdit", "done"}
                  /\ tk.pc = "done" => tk.outcome \in {"error", "crashed"}
                  /\ tk.finalFiles = <<>>
                  /\ ~tk.wrote
                  /\ tk.percents # <<>> => tk.percents[Len(tk.percents)] < DONE_PERCENT

\* The second build call of a run failed after the first file was built, and
\* the error was reported.
C21_Witness ==
    \E t \in Tasks :
        /\ GenerationFailed(tasks[t])
        /\ tasks[t].built = 1
        /\ tasks[t].genCalls = 3
        /\ tasks[t].outcome = "error"

\* The platform did not reject the error report itself: a spawn or tweak
\* ends as crashed only when the edit of its catch block fails, and a
\* brainstorm has no catch block whose edit could fail.
ReportAccepted(tk) == tk.cmd = "brainstorm" \/ tk.outcome # "crashed"

\* The handler of task t ended after one of its generation calls failed.
EndedOnGenerationFailure(tk) == tk.pc = "done" /\ tk.error = "generation"

\* C22: in spawn, tweak and brainstorm, a failed generation call gives the
\* requester exactly one error report, and the requester's stored memory is
\* as it was before the command.
C22_FailureSurfaced ==
    \A t \in Tasks :
        LET tk == tasks[t]
        IN  (EndedOnGenerationFailure(tk) /\ ReportAccepted(tk))
               => /\ tk.reports = 1
                  /\ tk.outcome = "error"
                  /\ Undisturbed(t) => db[tk.user] = tk.before

\* The same for spawn and tweak only, whose calls are inside a try block.
C22_SpawnTweakSurfaced ==
    \A t \in Tasks :
        LET tk == tasks[t]
        IN  (EndedOnGenerationFailure(tk) /\ ReportAccepted(tk)
             /\ tk.cmd \in {"spawn", "tweak"})
               => /\ tk.reports = 1
                  /\ tk.outcome = "error"
                  /\ Undisturbed(t) => db[tk.user] = tk.before


(***************************************************************************)
(* PROGRESS UPDATES                                                        *)
(***************************************************************************)

NonDecreasing(ns) == \A i \in 1..(Len(ns) - 1) : ns[i] <= ns[i + 1]

\* The updates of a whole command: the initial one, the plan one, one for
\* each planned file, the audit one and the final one.
AllUpdates(tk) == Len(tk.percents) = Len(tk.filesToBuild) + 4

\* C23: the percentages written to the status message over one spawn or
\* tweak never decrease and lie in 0..100, whatever the length of the file
\* list.
C23_ProgressMonotone ==
    \A t \in Tasks :
        LET ps == tasks[t].percents
        IN  /\ NonDecreasing(ps)
            /\ \A i \in 1..Len(ps) : ps[i] \in 0..DONE_PERCENT

\* A command on a plan of nine files (70 / 9 is no integer) was delivered,
\* with all its thirteen updates written and rounding making its steps uneven.
C23_Witness ==
    \E t \in Tasks :
        /\ tasks[t].outcome = "delivered"
        /\ Len(tasks[t].filesToBuild) = 9
        /\ AllUpdates(tasks[t])
        /\ tasks[t].percents[4] - tasks[t].percents[3]
              # tasks[t].percents[5] - tasks[t].percents[4]


(***************************************************************************)
(* INPUT ERRORS                                                            *)
(***************************************************************************)

\* A spawn, tweak or brainstorm whose argument is the empty string.
EmptyArgument(tk) == tk.cmd \in {"spawn", "tweak", "brainstorm"} /\ tk.arg = <<>>

\* Nothing of the pipeline has run for the command and nothing was stored.
NothingDone(t) ==
    /\ tasks[t].genCalls = 0
    /\ tasks[t].percents = <<>>
    /\ ~tasks[t].wrote
    /\ Undisturbed(t) => db[tasks[t].user] = tasks[t].before

\* C24 as stated: a spawn, tweak or brainstorm with an empty argument is
\* answered with the usage reply, calls the generation service never and
\* writes nothing to the store.
C24_UsageReplyAlways ==
    \A t \in Tasks :
        LET tk == tasks[t]
        IN  EmptyArgument(tk)
               => /\ NothingDone(t)
                  /\ tk.pc = "done" => tk.outcome \in {"usage", "crashed"}

\* C24 as amended: the same, where a tweak reads the requester's memory
\* first and answers with the precondition reply when there is none; spawn
\* and brainstorm answer before any read.
C24_InputErrorsChangeNothing ==
    \A t \in Tasks :
        LET tk == tasks[t]
        IN  EmptyArgument(tk)
               => /\ NothingDone(t)
                  /\ tk.cmd # "tweak" => tk.pc \in {"usageReply", "done"} /\ ~IsSome(tk.state)
                  /\ tk.cmd = "tweak" =>
                        tk.pc \in {"getState", "usageReply", "preconditionReply", "done"}
                  /\ tk.pc = "done" =>
                        \/ tk.outcome \in {"usage", "crashed"}
                        \/ /\ tk.outcome = "precondition"
                           /\ tk.cmd = "tweak"
                           /\ ~IsSome(tk.state)
                  /\ (tk.pc = "done" /\ tk.outcome = "usage" /\ tk.cmd = "tweak")
                        => IsSome(tk.state)

\* A tweak with an empty instruction of a requester who has stored memory
\* got the usage reply, and the memory is as it was.
C24_Witness ==
    \E t \in Tasks :
        /\ tasks[t].cmd = "tweak"
        /\ tasks[t].arg = <<>>
        /\ tasks[t].outcome = "usage"
        /\ IsSome(tasks[t].before)
        /\ db[tasks[t].user] = tasks[t].before


(***************************************************************************)
(* COMMANDS OF ONE REQUESTER THAT OVERLAP                                  *)
(***************************************************************************)

\* The column col of a snapshot that may be null (state?.col).
Snapshot(tk, col) == IF IsSome(tk.state) THEN Get(tk.state)[col] ELSE None

\* The full row a command writes: its own result, and for the columns it
\* does not produce what it read when it took its snapshot.
Replacement(tk) ==
    IF tk.cmd = "brainstorm"
    THEN Row(Snapshot(tk, "lastResponse"), Snapshot(tk, "lastPrompt"), Some(tk.reply))
    ELSE Row(Some(JSONstringify(tk.finalFiles)), Some(tk.arg), Snapshot(tk, "lastPlan"))

\* C25 (the rule): a requester's row changes only when one command of that
\* requester writes, and it then is that command's full replacement, built
\* from the one snapshot the command read, whatever the row held by then:
\* the stored row is the one written last.
C25_LastWriterWins ==
    [][\A u \in Users :
          db'[u] # db[u]
             => \E t \in Tasks :
                   /\ tasks[t].user = u
                   /\ ~tasks[t].wrote /\ tasks'[t].wrote
                   /\ tasks'[t].state = tasks[t].state
                   /\ db'[u] = Some(Replacement(tasks[t]))]_vars

\* C25 (the interleaving): a spawn or tweak was delivered after saving its
\* files, a brainstorm of the same requester that had read the memory
\* before that save (it saw no row) wrote afterwards, and the stored
\* lastResponse no longer holds the files of the build.
C25_Witness ==
    \E t, s \in Tasks :
        /\ t # s
        /\ tasks[t].user = tasks[s].user
        /\ tasks[t].cmd \in {"spawn", "tweak"}
        /\ tasks[t].outcome = "delivered"
        /\ tasks[t].wrote
        /\ tasks[s].wrote
        /\ ~IsSome(tasks[s].state)
        /\ IsSome(db[tasks[t].user])
        /\ Get(db[tasks[t].user]).lastResponse # Some(JSONstringify(tasks[t].finalFiles))


(***************************************************************************)
(* REQUESTERS                                                              *)
(***************************************************************************)

\* The memory of requester u: the columns of the row stored now and of every
\* row a command of u has written (prompts, replies and files name the
\* invocation they come from, so a text tells whose memory it is).
MemoryOf(u) ==
    (IF IsSome(db[u])
     THEN {Get(db[u]).lastResponse, Get(db[u]).lastPrompt, Get(db[u]).lastPlan}
     ELSE {})
       \cup UNION { {Replacement(tasks[s]).lastResponse,
                     Replacement(tasks[s]).lastPrompt,
                     Replacement(tasks[s]).lastPlan} :
                    s \in {r \in Tasks : tasks[r].user = u /\ tasks[r].wrote} }

\* The stored texts placed in the generation requests made for task t: the
\* approved plan of a spawn, the previous state of a tweak, the history of a
\* brainstorm.
SentFor(t) ==
    {tasks[t].request.plan, tasks[t].request.previous}
       \cup (IF tasks[t].cmd = "brainstorm" /\ tasks[t].genCalls > 0
             THEN {Snapshot(tasks[t], "lastPlan")} ELSE {})

\* No request made for a command carries a text of another requester's
\* memory.
IsolatedRequests ==
    \A t \in Tasks : \A u \in Users \ {tasks[t].user} :
        (SentFor(t) \cap MemoryOf(u)) \subseteq {None}

\* Every handler that moves in a step that changes the row of requester u
\* runs a command of u.
IsolatedWrites ==
    \A u \in Users :
        db'[u] # db[u] => \A t \in Tasks : tasks'[t] # tasks[t] => tasks[t].user = u

\* C26: for two distinct requesters and any interleaving of their commands,
\* no command of one changes the stored memory of the other, and no
\* generation request made for one contains the lastPrompt, lastArtifacts or
\* lastPlan of the other.
C26_RequesterIsolation == []IsolatedRequests /\ [][IsolatedWrites]_vars

\* Commands of two requesters have each made a generation request and
\* stored a row, and the row of the one that arrived first is still what it
\* wrote, with its plan.
C26_Witness ==
    \E s, t \in Tasks :
        /\ s < t
        /\ tasks[s].user # tasks[t].user
        /\ tasks[s].wrote /\ tasks[t].wrote
        /\ tasks[t].genCalls > 0
        /\ db[tasks[s].user] = Some(Replacement(tasks[s]))
        /\ IsSome(Get(db[tasks[s].user]).lastPlan)


\* C27: once a row exists for a requester it exists in every later state, so
\* every later read for that requester returns a row, whatever commands run
\* and however they end.
C27_MemoryNeverDeleted ==
    [][\A u \in Users : IsSome(db[u]) => IsSome(db'[u])]_vars

\* A requester's row was written, a later command of the same requester
\* read it and then failed, and the row is still there.
C27_Witness ==
    \E s, t \in Tasks :
        /\ s < t
        /\ tasks[s].user = tasks[t].user
        /\ tasks[s].wrote
        /\ IsSome(tasks[t].state)
        /\ tasks[t].pc = "done"
        /\ tasks[t].outcome \in {"error", "crashed"}
        /\ IsSome(db[tasks[t].user])


(***************************************************************************)
(* THE ELEMENTS OF THE FILE LIST                                           *)
(***************************************************************************)

Distinct(xs) == \A i, j \in 1..Len(xs) : xs[i] = xs[j] => i = j

AllStrings(xs) == \A i \in 1..Len(xs) : xs[i].kind = "string"

\* C28: the list the build loop iterates over holds only strings and no
\* name twice, whatever array the plan response carries.
C28_DistinctNames ==
    \A t \in Tasks :
        tasks[t].pc \in LoopPcs
           => Distinct(tasks[t].filesToBuild) /\ AllStrings(tasks[t].filesToBuild)

\* The same for the program of part_000 alone.
C28_DistinctNamesCurrent ==
    variant = "part_000" => C28_DistinctNames


(***************************************************************************)
(* parseFiles ON TEXTS THAT ARE NOT BLOCKS                                 *)
(***************************************************************************)

\* The pieces the texts are assembled from.
\* The start marker without its colon
LOOSE_OPEN == <<"[","F","I","L","E","_","S","T","A","R","T">>

\* A colon
LOOSE_COLON == <<":">>

\* A name, a closing bracket and a letter
LOOSE_NAME == <<"a",".","j","s","]","x">>

\* An end marker
LOOSE_END == <<"[","F","I","L","E","_","E","N","D","]">>

\* A start marker in lower case
LOOSE_LOWER == <<"[","f","i","l","e","_","s","t","a","r","t",":","b","]">>

\* A start marker without its bracket
LOOSE_BARE == <<"F","I","L","E","_","S","T","A","R","T",":","c","]">>

\* A line of code
LOOSE_CODE == <<"x","=","1","\n">>

\* A fence opener
LOOSE_FENCE == <<BACKTICK,BACKTICK,BACKTICK,"j","s","\n">>

\* A space
LOOSE_SPACE == <<" ">>

LooseFragments ==
    {LOOSE_OPEN, LOOSE_COLON, LOOSE_NAME, LOOSE_END, LOOSE_LOWER, LOOSE_BARE, LOOSE_CODE, LOOSE_FENCE, LOOSE_SPACE}

\* Every text of at most MaxFragments pieces: most hold no start marker, and
\* some assemble one.
LooseTexts ==
    {Flatten(fs) : fs \in UNION {[1..n -> LooseFragments] : n \in 0..MaxFragments}}

\* parseFiles is called on such a text.
InitLoose ==
    /\ Quiet
    /\ variant = "part_000"
    /\ call \in {[fn |-> "parseFiles", arg |-> text, parts |-> <<>>] : text \in LooseTexts}
    /\ result = None

NextLoose == CallParseFiles

SpecLoose == InitLoose /\ [][NextLoose]_vars

\* The text holds no [FILE_START: marker.
MarkerFree(text) == IndexOf(text, FILE_START_LIT) = 0

\* C29: for every text that holds no [FILE_START: marker, parseFiles returns
\* the empty sequence.
C29_MarkerFreeIsEmpty ==
    (Parsed /\ MarkerFree(call.arg)) => Get(result) = <<>>

\* parseFiles has returned nothing for a text that holds an end marker and a
\* start marker in lower case, and no start marker.
C29_Witness ==
    /\ Parsed
    /\ MarkerFree(call.arg)
    /\ IndexOf(call.arg, FILE_END_LIT) # 0
    /\ IndexOf(call.arg, LOOSE_LOWER) # 0
    /\ Get(result) = <<>>

\* Some texts of the specification do assemble a block, and parseFiles
\* returns its file.
C29_SomeTextHasBlock ==
    Parsed /\ ~MarkerFree(call.arg) /\ Get(result) # <<>>


(***************************************************************************)
(* THE PERSONA SELECTION OVER THE ITERATIONS OF THE BUILD LOOP             *)
(***************************************************************************)

\* The file names the loop is run over.
ROUTED_PLAIN == <<"m","a","i","n",".","j","s">>

ROUTED_PAGE == <<"x",".","h","t","m","l">>

ROUTED_SCHEMA == <<"a",".","s","q","l">>

ROUTED_AUTH == <<"a","u","t","h",".","j","s">>

RoutedNames == {ROUTED_PLAIN, ROUTED_PAGE, ROUTED_SCHEMA, ROUTED_AUTH}

\* The longest list of file names the loop is run over.
MaxRouted == 3

RoutedLists == UNION {[1..n -> RoutedNames] : n \in 1..MaxRouted}

\* The loop of lines 165-172 run over the list call.arg: result holds the
\* personas selected so far, one for each iteration done.
InitRouting ==
    /\ Quiet
    /\ variant = "part_000"
    /\ call \in {[fn |-> "persona loop", arg |-> names, parts |-> <<>>] : names \in RoutedLists}
    /\ result = Some(<<>>)

\* One iteration of the loop, up to its persona selection.
SelectNext ==
    /\ call.fn = "persona loop"
    /\ Len(Get(result)) < Len(call.arg)
    /\ LET roles    == Get(result)
           previous == IF roles = <<>> THEN "none" ELSE roles[Len(roles)]
           fileName == call.arg[Len(roles) + 1]
       IN  result' = Some(Append(roles, SelectPersona(previous, fileName)))
    /\ UNCHANGED <<variant, db, tasks, completed, call>>

NextRouting == SelectNext

SpecRouting == InitRouting /\ [][NextRouting]_vars

CallsReturned(tk) == IF IsSome(tk.planAnswer) THEN 1 + tk.built ELSE 0

\* The calls of the run that are issued and have neither returned nor failed.
Outstanding(tk) ==
    tk.genCalls - CallsReturned(tk) - (IF tk.error = "generation" THEN 1 ELSE 0)

\* The handler is inside swarmGenerate, before the audit update is written.
InsideSwarm(tk) == tk.pc \in {"planWait", "buildEdit", "buildWait", "auditEdit"}

\* C31: in one run of the pipeline at most one generation call is
\* outstanding; the plan call has returned before a build call is issued;
\* build call k is issued for file k of the list after the k-1 calls before
\* it returned; every call comes after a progress update of its own; the
\* audit update is written after the last build call returned and before
\* the result is returned.
C31_PhaseOrdering ==
    \A t \in Tasks :
        LET tk == tasks[t]
        IN  tk.cmd \in {"spawn", "tweak"}
               => /\ Outstanding(tk) \in {0, 1}
                  /\ Outstanding(tk) = 1 <=> tk.pc \in {"planWait", "buildWait"}
                  /\ tk.pc = "planWait" => tk.genCalls = 1 /\ ~IsSome(tk.planAnswer)
                  /\ tk.pc = "buildWait" =>
                        /\ IsSome(tk.planAnswer)
                        /\ tk.genCalls = tk.built + 2
                        /\ tk.built < Len(tk.filesToBuild)
                  /\ \A i \in 1..Len(tk.responses) :
                        tk.responses[i] = BlockFor(tk.filesToBuild[i], t)
                  /\ InsideSwarm(tk) => Len(tk.percents) = tk.genCalls + 1
                  /\ SwarmReturned(tk) =>
                        /\ tk.built = Len(tk.filesToBuild)
                        /\ tk.genCalls = tk.built + 1
                        /\ Len(tk.percents) >= tk.genCalls + 2
                        /\ tk.percents[tk.genCalls + 2] = AuditPercent

\* A run over three files has returned its result: four calls, each after
\* its update, and the audit update last.
C31_Witness ==
    \E t \in Tasks :
        /\ tasks[t].pc = "save"
        /\ Len(tasks[t].filesToBuild) = 3
        /\ tasks[t].genCalls = 4
        /\ Len(tasks[t].percents) = 6


\* A run that has returned issued one plan call and one build call for each
\* file of its plan, and got one answer for each.
ExactCallCount ==
    \A t \in Tasks :
        SwarmReturned(tasks[t])
           => /\ tasks[t].genCalls = Len(tasks[t].filesToBuild) + 1
              /\ Len(tasks[t].responses) = Len(tasks[t].filesToBuild)

\* The step that ends the audit phase issues no call and leaves the files
\* as the build loop left them.
AuditChangesNothing ==
    \A t \in Tasks :
        (tasks[t].pc = "auditEdit" /\ tasks'[t].pc = "save")
           => /\ tasks'[t].genCalls = tasks[t].genCalls
              /\ tasks'[t].finalFiles = tasks[t].finalFiles

\* C32: a successful run over a plan of N files issues exactly N + 1
\* generation calls, the plan call and one build call for each file; the
\* audit phase issues none and does not change the list of artifacts.
C32_CallCount == []ExactCallCount /\ [][AuditChangesNothing]_vars

\* A run over a plan of nine files was delivered after ten calls, with
\* nine artifacts.
C32_Witness ==
    \E t \in Tasks :
        /\ tasks[t].outcome = "delivered"
        /\ Len(tasks[t].filesToBuild) = 9
        /\ tasks[t].genCalls = 10
        /\ Len(tasks[t].finalFiles) = 9


(***************************************************************************)
(* SPAWN                                                                   *)
(***************************************************************************)

\* The handler of a spawn has read the requester's row and entered
\* swarmGenerate.
SpawnStarted(tk) == tk.cmd = "spawn" /\ tk.request.kind = "spawn"

\* C33: the request of a spawn begins with the approved plan exactly when
\* the row it read holds a plan (a text that is not empty), and the raw
\* prompt follows; after a spawn that succeeds with no overlapping command
\* of the requester the row holds the serialized files of the result, the
\* raw prompt as lastPrompt, and the lastPlan it had before the spawn.
C33_SpawnSuccess ==
    \A t \in Tasks :
        LET tk == tasks[t]
        IN  /\ SpawnStarted(tk) =>
                  /\ tk.request.text = tk.arg
                  /\ tk.request.previous = None
                  /\ IsSome(tk.request.plan) <=> Truthy(Snapshot(tk, "lastPlan"))
                  /\ IsSome(tk.request.plan) => tk.request.plan = Snapshot(tk, "lastPlan")
            /\ (tk.cmd = "spawn" /\ Succeeding(tk) /\ Undisturbed(t)) =>
                  /\ tk.state = tk.before
                  /\ IsSome(db[tk.user])
                  /\ Get(db[tk.user]).lastResponse = Some(JSONstringify(tk.finalFiles))
                  /\ Get(db[tk.user]).lastPrompt = Some(tk.arg)
                  /\ Get(db[tk.user]).lastPlan = ColumnOf(tk.before, "lastPlan")

\* A spawn of a requester with a stored plan was delivered: its request
\* began with that plan, and the row still holds it.
C33_Witness ==
    \E t \in Tasks :
        LET tk == tasks[t]
        IN  /\ tk.cmd = "spawn"
            /\ tk.outcome = "delivered"
            /\ Undisturbed(t)
            /\ Truthy(ColumnOf(tk.before, "lastPlan"))
            /\ tk.request.plan = ColumnOf(tk.before, "lastPlan")
            /\ Get(db[tk.user]).lastPlan = tk.request.plan

\* A spawn of a requester without a row was delivered: its request was the
\* raw prompt alone.
C33_WitnessNoPlan ==
    \E t \in Tasks :
        /\ tasks[t].cmd = "spawn"
        /\ tasks[t].outcome = "delivered"
        /\ tasks[t].before = None
        /\ tasks[t].request.plan = None


(***************************************************************************)
(* THE RESULT IS NEVER EMPTY                                               *)
(***************************************************************************)

\* The files an earlier build of the requester delivered.
EarlierFiles == parseFiles(Block(EXTRA_NAME, <<"w">>))

\* The row an earlier delivered spawn left: saveGhostState of lines 264-268
\* for a requester who had no row.
EarlierBuild ==
    Row(Some(JSONstringify(EarlierFiles)), Some(<<"r", "0">>), None)

\* The bot of part_000 with requesters that have built before and
\* requesters that have not.
InitRebuild ==
    /\ variant = "part_000"
    /\ db \in [Users -> {None, Some(EarlierBuild)}]
    /\ tasks = [t \in Tasks |-> IdleTask]
    /\ completed = {}
    /\ call = NoCall
    /\ result = None

\* One invocation of the handler of part_000, spawn or tweak, with every
\* answer of the generation service the model knows.
SpecRebuild == InitRebuild /\ [][NextPipeline]_vars

\* C34: a pipeline run that returns has a file list of at least one name
\* and a result of at least as many artifacts as the list has names, so at
\* least one; the branch of spawn that reports that no file was generated
\* and the branch of tweak that replies without an archive are never taken.
C34_ResultNeverEmpty ==
    \A t \in Tasks :
        LET tk == tasks[t]
        IN  /\ (SwarmReturned(tk) \/ tk.pc = "auditEdit")
                  => /\ Len(tk.filesToBuild) >= 1
                     /\ Len(tk.finalFiles) >= Len(tk.filesToBuild)
                     /\ Len(tk.finalFiles) >= 1
            /\ tk.pc # "nofilesEdit"
            /\ tk.outcome # "nofiles"

\* A tweak whose three build responses were all the empty string passed the
\* save and took the branch with the archive.
C34_Witness ==
    \E t \in Tasks :
        LET tk == tasks[t]
        IN  /\ tk.cmd = "tweak"
            /\ tk.pc = "deliverEdit"
            /\ Len(tk.responses) = 3
            /\ \A i \in 1..3 : tk.responses[i] = EMPTY_RESPONSE
            /\ Len(tk.finalFiles) = 3

\* A spawn whose plan carried an empty list was delivered.
C34_WitnessSpawn ==
    \E t \in Tasks :
        LET tk == tasks[t]
        IN  /\ tk.cmd = "spawn"
            /\ tk.outcome = "delivered"
            /\ tk.planAnswer = Some(PLAN_EMPTY_LIST)
            /\ Len(tk.finalFiles) >= 3


(***************************************************************************)
(* TWEAK STARTS FROM A BUILD                                               *)
(***************************************************************************)

\* The handler of a tweak has passed its two checks and entered
\* swarmGenerate.
TweakStarted(tk) == tk.cmd = "tweak" /\ tk.request.kind = "tweak"

\* The previous state the tweak of task t embeds is the serialized result
\* that a spawn or tweak of the same requester saved.
FromEarlierBuild(t) ==
    \E s \in Tasks \ {t} :
        /\ tasks[s].user = tasks[t].user
        /\ tasks[s].cmd \in {"spawn", "tweak"}
        /\ tasks[s].wrote
        /\ tasks[t].request.previous = Some(JSONstringify(tasks[s].finalFiles))

\* C35 as stated: whenever a tweak enters the pipeline, the previous state
\* it embeds is present and is the serialized artifact list that an earlier
\* spawn or tweak of the requester saved; a requester whose row was written
\* by brainstorm only starts no tweak pipeline.
C35_TweakFromBuild ==
    \A t \in Tasks :
        TweakStarted(tasks[t]) =>
            /\ IsSome(tasks[t].request.previous)
            /\ FromEarlierBuild(t)

\* What the code does guarantee: a tweak enters the pipeline only for a
\* requester with a row, and embeds the lastResponse column of the row it
\* read, whatever that column holds.
C35_TweakFromRow ==
    \A t \in Tasks :
        TweakStarted(tasks[t]) =>
            /\ IsSome(tasks[t].state)
            /\ tasks[t].request.previous = Get(tasks[t].state).lastResponse

\* A tweak entered the pipeline after a delivered spawn of the requester,
\* embedding the files that spawn saved.
C35_TweakAfterSpawn ==
    \E t \in Tasks :
        /\ TweakStarted(tasks[t])
        /\ IsSome(tasks[t].request.previous)
        /\ FromEarlierBuild(t)


(***************************************************************************)
(* THE STANDING PLAN                                                       *)
(***************************************************************************)

\* The step is the save of the spawn or tweak of task t.
BuildSaves(t) ==
    /\ tasks[t].cmd \in {"spawn", "tweak"}
    /\ tasks[t].pc = "save"
    /\ ~tasks[t].wrote
    /\ tasks'[t].wrote

\* No save of a spawn or tweak changes the lastPlan column of a row.
PlanKept ==
    \A t \in Tasks :
        BuildSaves(t) =>
            \A u \in Users : ColumnOf(db'[u], "lastPlan") = ColumnOf(db[u], "lastPlan")

\* C36 as stated: in every interleaving of a requester's commands the
\* stored lastPlan changes only when a brainstorm saves its reply; no save
\* of a spawn or tweak changes it.
C36_OnlyBrainstormChangesPlan == [][PlanKept]_vars

\* What holds in every interleaving: the save of a spawn or tweak writes
\* the lastPlan of the snapshot the command read, and leaves the rows of
\* the other requesters alone.
C36_SaveWritesSnapshotPlan ==
    [][\A t \in Tasks :
          BuildSaves(t) =>
              /\ ColumnOf(db'[tasks[t].user], "lastPlan") = Snapshot(tasks[t], "lastPlan")
              /\ \A u \in Users \ {tasks[t].user} : db'[u] = db[u]]_vars

\* A brainstorm saved its reply while a spawn of the same requester was
\* running, and the spawn has saved since: the row holds the plan of the
\* spawn's snapshot, not the reply.
C36_PlanOverwritten ==
    \E t, s \in Tasks :
        /\ tasks[t].cmd = "spawn" /\ tasks[t].wrote
        /\ tasks[s].cmd = "brainstorm" /\ tasks[s].wrote
        /\ tasks[s].user = tasks[t].user
        /\ tasks[s].outcome = "replied"
        /\ ColumnOf(db[tasks[t].user], "lastPlan") # Some(tasks[s].reply)
        /\ ColumnOf(db[tasks[t].user], "lastPlan") = Snapshot(tasks[t], "lastPlan")


(***************************************************************************)
(* TERMINATION                                                             *)
(***************************************************************************)

\* The awaited call of the generation service fails: the second alternative
\* of PlanReturn and of BuildReturn.
GenerationFails(t) ==
    /\ tasks[t].pc \in {"planWait", "buildWait"}
    /\ Set(t, Thrown(tasks[t], "generation"))
    /\ UNCHANGED <<call, result, variant, db, completed>>

\* The handler of task t goes on from the await it is at: the awaited call
\* of the generation service, of the store or of the chat platform returns
\* or fails.
Proceed(t) ==
    \/ GenerationFails(t)
    \/ UsageReply(t)
    \/ HelpReply(t)
    \/ PreconditionReply(t)
    \/ StatusReply(t)
    \/ GetContext(t)
    \/ GetState(t)
    \/ PlanEdit(t)
    \/ PlanReturn(t, SystemPlans)
    \/ BuildEdit(t)
    \/ BuildReturn(t, FALSE)
    \/ AuditEdit(t)
    \/ Save(t)
    \/ FinalEdit(t)
    \/ DeliverReply(t)
    \/ ErrorEdit(t)
    \/ BrainstormReturn(t)
    \/ BrainstormSave(t)
    \/ BrainstormReply(t)

\* The bot of part_000 when every awaited call eventually returns or fails:
\* the event loop resumes a handler whose awaited promise has settled.
SpecFair == Init /\ [][Next]_vars /\ \A t \in Tasks : WF_vars(Proceed(t))

\* The ways a handler ends: with a delivery or a reply, or with an error
\* (reported, or as a rejected promise).
TerminalOutcomes ==
    {"delivered", "replied", "usage", "precondition", "help", "nofiles",
     "error", "crashed"}

Terminated(t) == tasks[t].pc = "done" /\ tasks[t].outcome \in TerminalOutcomes

\* The build loop has started no more iterations than the list has names,
\* and has issued one build call per iteration it started.
LoopBounded(tk) ==
    /\ tk.genCalls <= tk.built + 2
    /\ (tk.pc \in LoopPcs \/ SwarmReturned(tk)) =>
          /\ tk.built <= Len(tk.filesToBuild)
          /\ Len(tk.responses) = tk.built
          /\ tk.genCalls <= 1 + Len(tk.filesToBuild)

\* C37: when every awaited call eventually returns or fails, every command
\* that arrived eventually ends, with a delivery or a reply or with an
\* error; the build loop runs at most once per name of the file list.
C37_Termination ==
    /\ [](\A t \in Tasks : LoopBounded(tasks[t]))
    /\ \A t \in Tasks : Running(t) ~> Terminated(t)

\* A spawn, a tweak or a brainstorm has ended, the spawn or tweak after one
\* iteration for each of the three names of its list.
C37_Witness ==
    \E t, s \in Tasks :
        /\ tasks[t].cmd \in {"spawn", "tweak"}
        /\ Terminated(t)
        /\ tasks[t].outcome = "delivered"
        /\ tasks[t].built = 3
        /\ Len(tasks[t].filesToBuild) = 3
        /\ tasks[s].cmd = "brainstorm"
        /\ Terminated(s)
        /\ tasks[s].outcome = "replied"

=============================================================================
